---------------------------- MODULE Spec2Model ----------------------------
(***************************************************************************)
(* Model of the algorithm engine of src/pipeline_system.py: DisjointSet,   *)
(* kruskal_mst_steps (a generator, one action per pull),                   *)
(* dijkstra_shortest_path_with_steps (one action per loop step) and the    *)
(* heapq operations the latter is built on.                                *)
(* The Tk application around the engine (the setup form, the simulator     *)
(* page and its timers) is the last part of the module.                    *)
(*                                                                         *)
(* Every local of a call lives in a function over the invocations that     *)
(* exist (DOMAIN pc): invocation k owns sorted_edges[k], ds[k], ...        *)
(* The node count and the edge list are the arguments shared by all calls. *)
(***************************************************************************)
EXTENDS Integers, Sequences, FiniteSets, TLC

VARIABLES
    nodes,           \* len(nodes): the number of nodes of the graph
    edges,           \* the edge list handed to the engine: <<weight, u, v>>
    pc,              \* per invocation: where the call / generator stands
    sorted_edges,    \* kruskal_mst_steps: local sorted_edges
    ds,              \* kruskal_mst_steps: local ds = [parent, rank]
    idx,             \* kruskal_mst_steps: position of the for loop (1-based)
    mst_steps,       \* the events the generator has yielded so far
    start_node,      \* dijkstra: argument start_node
    adj,             \* dijkstra: local adj
    distances,       \* dijkstra: local distances
    previous_nodes,  \* dijkstra: local previous_nodes
    priority_queue,  \* dijkstra: local priority_queue (the heap's list)
    steps,           \* dijkstra: local steps
    current,         \* dijkstra: <<current_distance, current_node>>
    nbr,             \* dijkstra: position of the for loop over adj[current_node]
    from_node,       \* reconstruct_path: argument start_node of the last call
    end_node,        \* reconstruct_path: argument end_node of the last call
    path_edges,      \* reconstruct_path: the list the last call returned
    ds_call,         \* the last DisjointSet method call: <<method, arguments, result>>
    controller,      \* the SmartIrrigationApp object
    simulator,       \* the IrrigationSimulator page
    tk,              \* the Tk event loop: pending after() callbacks, handlers in update()
    history          \* what the handlers have done so far (no variable of the program)

vars == <<nodes, edges, pc, sorted_edges, ds, idx, mst_steps, start_node, adj,
          distances, previous_nodes, priority_queue, steps, current, nbr,
          from_node, end_node, path_edges, ds_call,
          controller, simulator, tk, history>>

graph == <<nodes, edges>>
kruskalLocals == <<sorted_edges, ds, idx, mst_steps>>
dijkstraLocals == <<start_node, adj, distances, previous_nodes, priority_queue,
                    steps, current, nbr>>
pathLocals == <<from_node, end_node, path_edges>>
gui == <<controller, simulator, tk, history>>

---------------------------------------------------------------------------
(* Bounds of the model *)

MaxN == 3

MaxEdges == 3

MaxW == 1

TwoMaxN == 2

TwoMaxEdges == 2

---------------------------------------------------------------------------
(* Values *)

\* float('inf'): a number above every distance a run can reach (see Lt)
Inf == 1000000

\* None in previous_nodes
None == -2

NodeSet(n) == 0 .. (n - 1)

\* a < b on numbers extended with float('inf')
Lt(a, b) == a # Inf /\ (b = Inf \/ a < b)

\* A comparison of the distances alone.
DistanceLt(a, b) == a[1] < b[1]

\* Python's tuple comparison (distance, node) < (distance, node)
TupleLt(a, b) == a[1] < b[1] \/ (a[1] = b[1] /\ a[2] < b[2])

Weight(e) == e[1]

---------------------------------------------------------------------------
(* sorted(edges, key=lambda item: item[0]) *)

\* An insertion that puts e before the elements of equal key (not stable).
RECURSIVE InsertBeforeEqual(_, _)
InsertBeforeEqual(s, e) ==
    IF s = <<>> THEN <<e>>
    ELSE IF Weight(s[Len(s)]) < Weight(e) THEN Append(s, e)
    ELSE Append(InsertBeforeEqual(SubSeq(s, 1, Len(s) - 1), e), s[Len(s)])

RECURSIVE InsertByKey(_, _)
InsertByKey(s, e) ==
    IF s = <<>> THEN <<e>>
    ELSE IF Weight(s[Len(s)]) <= Weight(e) THEN Append(s, e)
    ELSE Append(InsertByKey(SubSeq(s, 1, Len(s) - 1), e), s[Len(s)])

\* The edges taken in input order, not sorted.
sortedNot(s) == s

RECURSIVE sorted(_)
sorted(s) ==
    IF s = <<>> THEN <<>>
    ELSE InsertByKey(sorted(SubSeq(s, 1, Len(s) - 1)), s[Len(s)])

---------------------------------------------------------------------------
(* class DisjointSet *)

DisjointSet(size) ==
    [parent |-> [i \in NodeSet(size) |-> i], rank |-> [i \in NodeSet(size) |-> 0]]

\* seq[i] is an element of the list (indices from 0, none negative here)
Listed(seq, i) == i \in DOMAIN seq

NoDisjointSet == [parent |-> <<>>, rank |-> <<>>]

\* A find that walks to the root and leaves the parent array as it is.
RECURSIVE findNoCompress(_, _)
findNoCompress(parent, i) ==
    IF parent[i] = i THEN <<i, parent>> ELSE findNoCompress(parent, parent[i])

\* find(i): <<the value returned, the parent array afterwards>>
RECURSIVE find(_, _)
find(parent, i) ==
    IF parent[i] = i THEN <<i, parent>>
    ELSE LET r == find(parent, parent[i])
         IN  <<r[1], [r[2] EXCEPT ![i] = r[1]]>>

\* A union that compares i and j themselves, not their roots.
unionNoFind(d, i, j) ==
    IF i # j
    THEN [ret |-> TRUE, ds |-> [parent |-> [d.parent EXCEPT ![j] = i], rank |-> d.rank]]
    ELSE [ret |-> FALSE, ds |-> d]

\* A union that counts a rank even when the two roots are the same.
unionRankOnEqual(d, i, j) ==
    LET fi == find(d.parent, i)
        fj == find(fi[2], j)
    IN  IF fi[1] # fj[1]
        THEN [ret |-> TRUE,
              ds |-> [parent |-> [fj[2] EXCEPT ![fj[1]] = fi[1]],
                      rank |-> [d.rank EXCEPT ![fi[1]] = d.rank[fi[1]] + 1]]]
        ELSE [ret |-> FALSE,
              ds |-> [parent |-> fj[2],
                      rank |-> [d.rank EXCEPT ![fi[1]] = d.rank[fi[1]] + 1]]]

\* A union that never looks at the ranks: j's root always goes under i's.
unionIgnoresRank(d, i, j) ==
    LET fi == find(d.parent, i)
        fj == find(fi[2], j)
    IN  IF fi[1] # fj[1]
        THEN [ret |-> TRUE,
              ds |-> [parent |-> [fj[2] EXCEPT ![fj[1]] = fi[1]],
                      rank |-> IF d.rank[fi[1]] = d.rank[fj[1]]
                               THEN [d.rank EXCEPT ![fi[1]] = d.rank[fi[1]] + 1]
                               ELSE d.rank]]
        ELSE [ret |-> FALSE, ds |-> [parent |-> fj[2], rank |-> d.rank]]

\* A union that on a tie counts the rank of the root it has just attached.
unionRanksChild(d, i, j) ==
    LET fi == find(d.parent, i)
        fj == find(fi[2], j)
        root_i == fi[1]
        root_j == fj[1]
    IN  IF root_i # root_j
        THEN IF d.rank[root_i] < d.rank[root_j]
             THEN [ret |-> TRUE,
                   ds |-> [parent |-> [fj[2] EXCEPT ![root_i] = root_j], rank |-> d.rank]]
             ELSE IF d.rank[root_i] > d.rank[root_j]
             THEN [ret |-> TRUE,
                   ds |-> [parent |-> [fj[2] EXCEPT ![root_j] = root_i], rank |-> d.rank]]
             ELSE [ret |-> TRUE,
                   ds |-> [parent |-> [fj[2] EXCEPT ![root_j] = root_i],
                           rank |-> [d.rank EXCEPT ![root_j] = d.rank[root_j] + 1]]]
        ELSE [ret |-> FALSE, ds |-> [parent |-> fj[2], rank |-> d.rank]]

\* union(i, j): [ret |-> the value returned, ds |-> the set afterwards]
union(d, i, j) ==
    LET fi == find(d.parent, i)
        fj == find(fi[2], j)
        root_i == fi[1]
        root_j == fj[1]
        p == fj[2]
    IN  IF root_i # root_j
        THEN IF d.rank[root_i] < d.rank[root_j]
             THEN [ret |-> TRUE,
                   ds |-> [parent |-> [p EXCEPT ![root_i] = root_j], rank |-> d.rank]]
             ELSE IF d.rank[root_i] > d.rank[root_j]
             THEN [ret |-> TRUE,
                   ds |-> [parent |-> [p EXCEPT ![root_j] = root_i], rank |-> d.rank]]
             ELSE [ret |-> TRUE,
                   ds |-> [parent |-> [p EXCEPT ![root_j] = root_i],
                           rank |-> [d.rank EXCEPT ![root_i] = d.rank[root_i] + 1]]]
        ELSE [ret |-> FALSE, ds |-> [parent |-> p, rank |-> d.rank]]

---------------------------------------------------------------------------
(* heapq, on the list that holds the heap (positions are 0-based as in     *)
(* CPython's heapq.py; the sequence is 1-based)                            *)

At(heap, pos) == heap[pos + 1]

Put(heap, pos, item) == [heap EXCEPT ![pos + 1] = item]

RECURSIVE siftdown(_, _, _, _)
siftdown(heap, startpos, pos, newitem) ==
    IF pos > startpos /\ TupleLt(newitem, At(heap, (pos - 1) \div 2))
    THEN siftdown(Put(heap, pos, At(heap, (pos - 1) \div 2)), startpos,
                  (pos - 1) \div 2, newitem)
    ELSE Put(heap, pos, newitem)

heappush(heap, item) ==
    siftdown(Append(heap, item), 0, Len(heap), item)

RECURSIVE siftup(_, _, _, _)
siftup(heap, startpos, pos, newitem) ==
    LET endpos == Len(heap)
        childpos == 2 * pos + 1
        rightpos == childpos + 1
        child == IF rightpos < endpos /\ ~TupleLt(At(heap, childpos), At(heap, rightpos))
                 THEN rightpos ELSE childpos
    IN  IF childpos < endpos
        THEN siftup(Put(heap, pos, At(heap, child)), startpos, child, newitem)
        ELSE siftdown(Put(heap, pos, newitem), startpos, pos, newitem)

\* list.pop(): the last item of the list, whatever its distance
popLast(heap) ==
    [item |-> heap[Len(heap)], heap |-> SubSeq(heap, 1, Len(heap) - 1)]

\* heappop(heap): [item |-> the item returned, heap |-> the list afterwards]
heappop(heap) ==
    LET lastelt == heap[Len(heap)]
        rest == SubSeq(heap, 1, Len(heap) - 1)
    IN  IF rest # <<>>
        THEN [item |-> rest[1], heap |-> siftup(Put(rest, 0, lastelt), 0, 0, lastelt)]
        ELSE [item |-> lastelt, heap |-> rest]

---------------------------------------------------------------------------
(* dijkstra_shortest_path_with_steps, lines 58-61: the adjacency lists *)

\* Adjacency lists with the edges in their listed direction only.
RECURSIVE BuildAdjDirected(_, _)
BuildAdjDirected(n, es) ==
    IF es = <<>> THEN [i \in NodeSet(n) |-> <<>>]
    ELSE LET a == BuildAdjDirected(n, SubSeq(es, 1, Len(es) - 1))
             e == es[Len(es)]
         IN  [a EXCEPT ![e[2]] = Append(a[e[2]], <<e[1], e[3]>>)]

RECURSIVE BuildAdj(_, _)
BuildAdj(n, es) ==
    IF es = <<>> THEN [i \in NodeSet(n) |-> <<>>]
    ELSE LET a == BuildAdj(n, SubSeq(es, 1, Len(es) - 1))
             e == es[Len(es)]
             a1 == [a EXCEPT ![e[2]] = Append(a[e[2]], <<e[1], e[3]>>)]
         IN  [a1 EXCEPT ![e[3]] = Append(a1[e[3]], <<e[1], e[2]>>)]

---------------------------------------------------------------------------
(* Graphs *)

\* Every pipe is listed once, lower endpoint first, as in DEFAULT_FARM_EDGES;
\* the same pair may be listed several times (parallel edges).
EdgeChoices(n, maxw) ==
    {e \in {<<w, u, v>> : w \in 0 .. maxw, u \in NodeSet(n), v \in NodeSet(n)} :
        e[2] < e[3]}

EdgeLists(n, maxe, maxw) ==
    UNION {[1 .. m -> EdgeChoices(n, maxw)] : m \in 0 .. maxe}

Invocations == DOMAIN pc

\* IrrigationSimulator.start_node: the source the application runs Dijkstra
\* from. The graphs of Init are closed under renaming the nodes, and the source
\* is in the frontier only while it is the frontier's one entry, so every run
\* from another source is the renaming of a run from node 0.
SourceNode == 0

IdleEngine(I) ==
    /\ pc = [k \in I |-> "idle"]
    /\ sorted_edges = [k \in I |-> <<>>]
    /\ ds = [k \in I |-> NoDisjointSet]
    /\ idx = [k \in I |-> 0]
    /\ mst_steps = [k \in I |-> <<>>]
    /\ start_node = [k \in I |-> None]
    /\ adj = [k \in I |-> <<>>]
    /\ distances = [k \in I |-> <<>>]
    /\ previous_nodes = [k \in I |-> <<>>]
    /\ priority_queue = [k \in I |-> <<>>]
    /\ steps = [k \in I |-> <<>>]
    /\ current = [k \in I |-> <<>>]
    /\ nbr = [k \in I |-> 0]
    /\ from_node = [k \in I |-> None]
    /\ end_node = [k \in I |-> None]
    /\ path_edges = [k \in I |-> <<>>]
    /\ ds_call = <<>>

\* The engine is used on its own: no application object has been made.
NoGui ==
    /\ controller = <<>>
    /\ simulator = <<>>
    /\ tk = <<>>
    /\ history = <<>>

Idle(I) == IdleEngine(I) /\ NoGui

Init ==
    /\ nodes \in 1 .. MaxN
    /\ edges \in EdgeLists(nodes, MaxEdges, MaxW)
    /\ Idle({1})

\* Two invocations on one graph
InitTwo ==
    /\ nodes \in 1 .. TwoMaxN
    /\ edges \in EdgeLists(nodes, TwoMaxEdges, MaxW)
    /\ Idle({1, 2})

---------------------------------------------------------------------------
(* kruskal_mst_steps *)

Event(tag, e) == <<tag, e[1], e[2], e[3]>>

ClearDijkstra(k) ==
    /\ start_node' = [start_node EXCEPT ![k] = None]
    /\ adj' = [adj EXCEPT ![k] = <<>>]
    /\ distances' = [distances EXCEPT ![k] = <<>>]
    /\ previous_nodes' = [previous_nodes EXCEPT ![k] = <<>>]
    /\ priority_queue' = [priority_queue EXCEPT ![k] = <<>>]
    /\ steps' = [steps EXCEPT ![k] = <<>>]
    /\ current' = [current EXCEPT ![k] = <<>>]
    /\ nbr' = [nbr EXCEPT ![k] = 0]

\* No path has been asked for since the call.
ClearPath(k) ==
    /\ from_node' = [from_node EXCEPT ![k] = None]
    /\ end_node' = [end_node EXCEPT ![k] = None]
    /\ path_edges' = [path_edges EXCEPT ![k] = <<>>]

ClearKruskal(k) ==
    /\ sorted_edges' = [sorted_edges EXCEPT ![k] = <<>>]
    /\ ds' = [ds EXCEPT ![k] = NoDisjointSet]
    /\ idx' = [idx EXCEPT ![k] = 0]
    /\ mst_steps' = [mst_steps EXCEPT ![k] = <<>>]

\* A Dijkstra call runs to its return; a generator can be dropped anywhere.
Free(k) ==
    pc[k] \in {"idle", "k_new", "k_check", "k_result", "k_done", "k_raised", "d_done", "d_raised"}

\* kruskal_mst_steps(nodes, edges): the generator object is created, its body
\* has not run yet.
KruskalCall(k) ==
    /\ Free(k)
    /\ pc' = [pc EXCEPT ![k] = "k_new"]
    /\ ClearKruskal(k)
    /\ ClearDijkstra(k)
    /\ ClearPath(k)
    /\ UNCHANGED <<graph, ds_call, gui>>

\* The for loop reaches edge number i: yield CHECK, or the generator ends.
KruskalAdvance(k, srt, d, i) ==
    /\ sorted_edges' = [sorted_edges EXCEPT ![k] = srt]
    /\ ds' = [ds EXCEPT ![k] = d]
    /\ idx' = [idx EXCEPT ![k] = i]
    /\ IF i > Len(srt)
       THEN /\ pc' = [pc EXCEPT ![k] = "k_done"]
            /\ UNCHANGED mst_steps
       ELSE /\ pc' = [pc EXCEPT ![k] = "k_check"]
            /\ mst_steps' = [mst_steps EXCEPT ![k] = Append(@, Event("CHECK", srt[i]))]

\* A first pull that takes over the disjoint set another call has left.
KruskalFirstSharedDs(k) ==
    /\ pc[k] = "k_new"
    /\ LET others == {j \in Invocations \ {k} : ds[j] # NoDisjointSet}
       IN  KruskalAdvance(k, sorted(edges),
                          IF others = {} THEN DisjointSet(nodes)
                          ELSE ds[CHOOSE j \in others : TRUE], 1)
    /\ UNCHANGED <<graph, dijkstraLocals, pathLocals, ds_call, gui>>

\* First pull: lines 45-49.
KruskalFirst(k) ==
    /\ pc[k] = "k_new"
    /\ KruskalAdvance(k, sorted(edges), DisjointSet(nodes), 1)
    /\ UNCHANGED <<graph, dijkstraLocals, pathLocals, ds_call, gui>>

\* Pull after a CHECK: lines 51-54.
KruskalDecide(k) ==
    /\ pc[k] = "k_check"
    /\ LET e == sorted_edges[k][idx[k]]
           r == union(ds[k], e[2], e[3])
       IN  IF Listed(ds[k].parent, e[2]) /\ Listed(ds[k].parent, e[3])
           THEN /\ ds' = [ds EXCEPT ![k] = r.ds]
                /\ mst_steps' = [mst_steps EXCEPT ![k] =
                       Append(@, Event(IF r.ret THEN "ACCEPT" ELSE "REJECT", e))]
                /\ pc' = [pc EXCEPT ![k] = "k_result"]
           ELSE \* self.parent[i] in find: IndexError leaves the generator
                /\ pc' = [pc EXCEPT ![k] = "k_raised"]
                /\ UNCHANGED <<ds, mst_steps>>
    /\ UNCHANGED <<graph, sorted_edges, idx, dijkstraLocals, pathLocals, ds_call, gui>>

\* A loop that ends as soon as nodes-1 edges have been accepted.
KruskalLoopUntilTree(k) ==
    /\ pc[k] = "k_result"
    /\ IF Cardinality({i \in 1 .. Len(mst_steps[k]) : mst_steps[k][i][1] = "ACCEPT"})
          = nodes - 1
       THEN KruskalAdvance(k, sorted_edges[k], ds[k], Len(sorted_edges[k]) + 1)
       ELSE KruskalAdvance(k, sorted_edges[k], ds[k], idx[k] + 1)
    /\ UNCHANGED <<graph, dijkstraLocals, pathLocals, ds_call, gui>>

\* Pull after an ACCEPT or REJECT: back to line 48.
KruskalLoop(k) ==
    /\ pc[k] = "k_result"
    /\ KruskalAdvance(k, sorted_edges[k], ds[k], idx[k] + 1)
    /\ UNCHANGED <<graph, dijkstraLocals, pathLocals, ds_call, gui>>

---------------------------------------------------------------------------
(* dijkstra_shortest_path_with_steps *)

\* The call, lines 58-68.
DijkstraCall(k, s) ==
    /\ Free(k)
    /\ ClearKruskal(k)
    /\ IF \A i \in 1 .. Len(edges) : edges[i][2] \in NodeSet(nodes) /\ edges[i][3] \in NodeSet(nodes)
       THEN /\ pc' = [pc EXCEPT ![k] = "d_loop"]
            /\ start_node' = [start_node EXCEPT ![k] = s]
            /\ adj' = [adj EXCEPT ![k] = BuildAdj(nodes, edges)]
            /\ distances' = [distances EXCEPT ![k] =
                   [[i \in NodeSet(nodes) |-> Inf] EXCEPT ![s] = 0]]
            /\ previous_nodes' = [previous_nodes EXCEPT ![k] =
                   [i \in NodeSet(nodes) |-> None]]
            /\ priority_queue' = [priority_queue EXCEPT ![k] = <<<<0, s>>>>]
            /\ steps' = [steps EXCEPT ![k] = <<>>]
            /\ current' = [current EXCEPT ![k] = <<>>]
            /\ nbr' = [nbr EXCEPT ![k] = 0]
       ELSE \* adj[u].append or adj[v].append: KeyError leaves the call
            /\ pc' = [pc EXCEPT ![k] = "d_raised"]
            /\ ClearDijkstra(k)
    /\ ClearPath(k)
    /\ UNCHANGED <<graph, ds_call, gui>>

\* No popped entry is taken for stale.
StaleNever(dist, item) == FALSE

\* An entry as good as the table is taken for stale too.
StaleOrEqual(dist, item) == ~Lt(item[1], dist[item[2]])

\* current_distance > distances[current_node], line 73
Stale(dist, item) == Lt(dist[item[2]], item[1])

\* One turn of the while loop up to the for loop: lines 70-76.
DijkstraPop(k) ==
    /\ pc[k] = "d_loop"
    /\ priority_queue[k] # <<>>
    /\ LET r == heappop(priority_queue[k])
       IN  /\ priority_queue' = [priority_queue EXCEPT ![k] = r.heap]
           /\ current' = [current EXCEPT ![k] = r.item]
           /\ IF Stale(distances[k], r.item)
              THEN UNCHANGED <<steps, pc, nbr>>
              ELSE /\ steps' = [steps EXCEPT ![k] = Append(@, <<"FINALIZED", r.item[2]>>)]
                   /\ IF adj[k][r.item[2]] = <<>>
                      THEN UNCHANGED <<pc, nbr>>
                      ELSE /\ pc' = [pc EXCEPT ![k] = "d_for"]
                           /\ nbr' = [nbr EXCEPT ![k] = 1]
    /\ UNCHANGED <<graph, kruskalLocals, start_node, adj, distances, previous_nodes,
                   pathLocals, ds_call, gui>>

\* A neighbor is relaxed only the first time it is seen.
ImprovesUnseen(distance, best) == best = Inf

\* A tie relaxes too: distance <= distances[neighbor].
ImprovesOrTies(distance, best) == Lt(distance, best) \/ distance = best

\* distance < distances[neighbor], line 80
Improves(distance, best) == Lt(distance, best)

\* One turn of the for loop: lines 78-86.
DijkstraRelax(k) ==
    /\ pc[k] = "d_for"
    /\ LET current_distance == current[k][1]
           current_node == current[k][2]
           weight == adj[k][current_node][nbr[k]][1]
           neighbor == adj[k][current_node][nbr[k]][2]
           distance == current_distance + weight
       IN  /\ IF Improves(distance, distances[k][neighbor])
              THEN /\ distances' = [distances EXCEPT ![k][neighbor] = distance]
                   /\ previous_nodes' = [previous_nodes EXCEPT ![k][neighbor] = current_node]
                   /\ priority_queue' = [priority_queue EXCEPT ![k] =
                          heappush(@, <<distance, neighbor>>)]
                   /\ steps' = [steps EXCEPT ![k] =
                          Append(@, <<"RELAXED", current_node, neighbor, distance>>)]
              ELSE /\ steps' = [steps EXCEPT ![k] =
                          Append(@, <<"COMPARE_WORSE", current_node, neighbor, distance>>)]
                   /\ UNCHANGED <<distances, previous_nodes, priority_queue>>
           /\ IF nbr[k] < Len(adj[k][current_node])
              THEN /\ nbr' = [nbr EXCEPT ![k] = @ + 1]
                   /\ UNCHANGED pc
              ELSE /\ nbr' = [nbr EXCEPT ![k] = 0]
                   /\ pc' = [pc EXCEPT ![k] = "d_loop"]
    /\ UNCHANGED <<graph, kruskalLocals, start_node, adj, current, pathLocals, ds_call, gui>>

\* The frontier is empty: line 88.
DijkstraReturn(k) ==
    /\ pc[k] = "d_loop"
    /\ priority_queue[k] = <<>>
    /\ pc' = [pc EXCEPT ![k] = "d_done"]
    /\ UNCHANGED <<graph, kruskalLocals, start_node, adj, distances, previous_nodes,
                   priority_queue, steps, current, nbr, pathLocals, ds_call, gui>>

---------------------------------------------------------------------------

\* One engine call at a time: the Kruskal generator and its pulls.
NextKruskal ==
    \/ \E k \in Invocations : KruskalCall(k)
    \/ \E k \in Invocations : KruskalFirst(k)
    \/ \E k \in Invocations : KruskalDecide(k)
    \/ \E k \in Invocations : KruskalLoop(k)

\* One engine call at a time: the Dijkstra run and its loop steps.
NextDijkstra ==
    \/ \E k \in Invocations : DijkstraCall(k, SourceNode)
    \/ \E k \in Invocations : DijkstraPop(k)
    \/ \E k \in Invocations : DijkstraRelax(k)
    \/ \E k \in Invocations : DijkstraReturn(k)

Next ==
    \/ \E k \in Invocations : KruskalCall(k)
    \/ \E k \in Invocations : KruskalFirst(k)
    \/ \E k \in Invocations : KruskalDecide(k)
    \/ \E k \in Invocations : KruskalLoop(k)
    \/ \E k \in Invocations : \E s \in NodeSet(nodes) : DijkstraCall(k, s)
    \/ \E k \in Invocations : DijkstraPop(k)
    \/ \E k \in Invocations : DijkstraRelax(k)
    \/ \E k \in Invocations : DijkstraReturn(k)

Spec == Init /\ [][Next]_vars

SpecKruskal == Init /\ [][NextKruskal]_vars

SpecDijkstra == Init /\ [][NextDijkstra]_vars

\* Two invocations, their calls and steps interleaved in any order
SpecTwo == InitTwo /\ [][Next]_vars

---------------------------------------------------------------------------
(* Reference definitions the properties are stated with. None of them uses *)
(* the operators that model the code.                                      *)

Range(s) == {s[i] : i \in 1 .. Len(s)}

Min(S) == CHOOSE x \in S : \A y \in S : x <= y

\* The nodes joined to a node of S by a path of edges of es
RECURSIVE Closure(_, _)
Closure(es, S) ==
    LET T == S \cup {e[3] : e \in {x \in Range(es) : x[2] \in S}}
                \cup {e[2] : e \in {x \in Range(es) : x[3] \in S}}
    IN  IF T = S THEN S ELSE Closure(es, T)

Components == {Closure(edges, {i}) : i \in NodeSet(nodes)}

Connected == Cardinality(Components) = 1

RECURSIVE SumOver(_, _)
SumOver(es, I) ==
    IF I = {} THEN 0
    ELSE LET i == CHOOSE x \in I : TRUE IN Weight(es[i]) + SumOver(es, I \ {i})

\* The sets of edge positions that form a spanning tree
SpanningTrees ==
    {T \in SUBSET (1 .. Len(edges)) :
        /\ Cardinality(T) = nodes - 1
        /\ Closure([i \in 1 .. Len(edges) |->
                       IF i \in T THEN edges[i] ELSE <<0, 0, 0>>], {0}) = NodeSet(nodes)}

MinSpanningWeight == Min({SumOver(edges, T) : T \in SpanningTrees})

\* The events of a trace with the given tag, in order
RECURSIVE Tagged(_, _)
Tagged(t, tag) ==
    IF t = <<>> THEN <<>>
    ELSE LET r == Tagged(SubSeq(t, 1, Len(t) - 1), tag)
         IN  IF t[Len(t)][1] = tag THEN Append(r, t[Len(t)]) ELSE r

\* <<weight, u, v>> of a Kruskal event
EdgeOf(ev) == <<ev[2], ev[3], ev[4]>>

RECURSIVE AcceptedWeight(_)
AcceptedWeight(t) ==
    IF t = <<>> THEN 0
    ELSE AcceptedWeight(SubSeq(t, 1, Len(t) - 1))
         + (IF t[Len(t)][1] = "ACCEPT" THEN t[Len(t)][2] ELSE 0)

IsPrefix(s, t) == Len(s) <= Len(t) /\ SubSeq(t, 1, Len(s)) = s

\* The elements of s of weight w, in order (s: edges or <<weight, u, v>> triples)
RECURSIVE OfWeight(_, _)
OfWeight(s, w) ==
    IF s = <<>> THEN <<>>
    ELSE LET r == OfWeight(SubSeq(s, 1, Len(s) - 1), w)
         IN  IF s[Len(s)][1] = w THEN Append(r, s[Len(s)]) ELSE r

\* The edges of the CHECK events of a trace, in order
RECURSIVE Checked(_)
Checked(t) ==
    IF t = <<>> THEN <<>>
    ELSE LET r == Checked(SubSeq(t, 1, Len(t) - 1))
         IN  IF t[Len(t)][1] = "CHECK" THEN Append(r, EdgeOf(t[Len(t)])) ELSE r

---------------------------------------------------------------------------
(* Properties of kruskal_mst_steps *)

\* C1: when the graph is connected, the weights on the ACCEPT events of a
\* complete Kruskal trace add up to the least weight of a spanning tree
\* (found by trying every set of nodes-1 edges).
C1_KruskalWeightIsMinimum ==
    \A k \in Invocations :
        (pc[k] = "k_done" /\ Connected)
            => AcceptedWeight(mst_steps[k]) = MinSpanningWeight

\* A complete trace of a connected graph of three nodes where the first two
\* listed edges would also span it, at a higher weight.
C1_Witness ==
    /\ pc[1] = "k_done"
    /\ Connected
    /\ nodes >= 3
    /\ Len(edges) >= 3
    /\ {1, 2} \in SpanningTrees
    /\ AcceptedWeight(mst_steps[1]) < SumOver(edges, {1, 2})

\* C3: the trace is made of pairs, CHECK of an edge then ACCEPT or REJECT of
\* the same edge; a complete trace has two events for every edge of the
\* graph, and the edges checked are the edges of the graph.
C3_EveryEdgeCheckedAndDecided ==
    \A k \in Invocations :
        LET t == mst_steps[k]
        IN  /\ \A i \in 1 .. Len(t) :
                   IF i % 2 = 1
                   THEN t[i][1] = "CHECK"
                   ELSE /\ t[i][1] \in {"ACCEPT", "REJECT"}
                        /\ EdgeOf(t[i]) = EdgeOf(t[i - 1])
            /\ pc[k] = "k_check" => Len(t) % 2 = 1
            /\ pc[k] \in {"k_result", "k_done"} => Len(t) % 2 = 0
            /\ pc[k] = "k_done" =>
                   /\ Len(t) = 2 * Len(edges)
                   /\ \A e \in Range(edges) :
                          Cardinality({i \in 1 .. Len(edges) : edges[i] = e})
                          = Cardinality({i \in 1 .. Len(t) : t[i] = Event("CHECK", e)})

\* A complete trace that went on after nodes-1 edges had been accepted: it
\* ends with a REJECT.
C3_Witness ==
    /\ pc[1] = "k_done"
    /\ nodes >= 3
    /\ Len(Tagged(mst_steps[1], "ACCEPT")) = nodes - 1
    /\ mst_steps[1][Len(mst_steps[1])][1] = "REJECT"

\* C4: the CHECK events come in ascending order of weight, and the edges of
\* one weight are checked in the order the edge list has them.
C4_ChecksAscendingAndStable ==
    \A k \in Invocations :
        LET c == Checked(mst_steps[k])
        IN  /\ \A p, q \in 1 .. Len(c) : p < q => Weight(c[p]) <= Weight(c[q])
            /\ \A w \in {Weight(e) : e \in Range(edges)} :
                   /\ IsPrefix(OfWeight(c, w), OfWeight(edges, w))
                   /\ pc[k] = "k_done" => OfWeight(c, w) = OfWeight(edges, w)

\* A complete trace of a list whose first edge is heavier than its second and
\* third, which weigh the same and join different pairs.
C4_Witness ==
    /\ pc[1] = "k_done"
    /\ Len(edges) >= 3
    /\ Weight(edges[1]) > Weight(edges[2])
    /\ Weight(edges[2]) = Weight(edges[3])
    /\ edges[2] # edges[3]

\* C5: a complete trace has nodes - k ACCEPT events, k the number of connected
\* components of the graph (nodes - 1 when it is connected).
C5_AcceptCount ==
    \A k \in Invocations :
        pc[k] = "k_done" =>
            Len(Tagged(mst_steps[k], "ACCEPT")) = nodes - Cardinality(Components)

\* A complete trace of a graph of two components, with an edge accepted and
\* an edge rejected.
C5_Witness ==
    /\ pc[1] = "k_done"
    /\ Cardinality(Components) = 2
    /\ Tagged(mst_steps[1], "ACCEPT") # <<>>
    /\ Tagged(mst_steps[1], "REJECT") # <<>>

---------------------------------------------------------------------------
(* Properties of dijkstra_shortest_path_with_steps *)

\* One round of Bellman-Ford over every edge, in both directions
BellmanFordRound(d) ==
    [v \in NodeSet(nodes) |->
        LET through == {d[e[2]] + e[1] : e \in {x \in Range(edges) : x[3] = v /\ d[x[2]] # Inf}}
                       \cup {d[e[3]] + e[1] : e \in {x \in Range(edges) : x[2] = v /\ d[x[3]] # Inf}}
            known == IF d[v] = Inf THEN {} ELSE {d[v]}
        IN  IF through \cup known = {} THEN Inf ELSE Min(through \cup known)]

RECURSIVE BellmanFordFix(_)
BellmanFordFix(d) ==
    LET next == BellmanFordRound(d)
    IN  IF next = d THEN d ELSE BellmanFordFix(next)

BellmanFord(s) == BellmanFordFix([v \in NodeSet(nodes) |-> IF v = s THEN 0 ELSE Inf])

Reachable(s) == Closure(edges, {s})

Running(k) == pc[k] \in {"d_loop", "d_for"}

Finalized(k, n) == \E i \in 1 .. Len(steps[k]) : steps[k][i] = <<"FINALIZED", n>>

TimesFinalized(k, n) ==
    Cardinality({i \in 1 .. Len(steps[k]) : steps[k][i] = <<"FINALIZED", n>>})

Count(q, x) == Cardinality({i \in 1 .. Len(q) : q[i] = x})

\* C2: when the run has returned, the distance of every node reachable from
\* the source is the one Bellman-Ford relaxation reaches at its fixed point.
C2_DistancesAreShortest ==
    \A k \in Invocations :
        pc[k] = "d_done" =>
            LET reference == BellmanFord(start_node[k])
            IN  \A n \in Reachable(start_node[k]) : distances[k][n] = reference[n]

\* A finished run in which a node was first relaxed to a distance larger than
\* its final one.
C2_Witness ==
    /\ pc[1] = "d_done"
    /\ \E i \in 1 .. Len(steps[1]) :
           /\ steps[1][i][1] = "RELAXED"
           /\ steps[1][i][4] > distances[1][steps[1][i][3]]

\* The pop at the head of the while loop: a stale entry adds no event, any
\* other adds FINALIZED of its node.
C6_PopRule ==
    \A k \in Invocations :
        (pc[k] = "d_loop" /\ priority_queue[k] # <<>>) =>
            IF current'[k][1] > distances[k][current'[k][2]]
            THEN steps'[k] = steps[k]
            ELSE steps'[k] = Append(steps[k], <<"FINALIZED", current'[k][2]>>)

\* While the run goes on, the entries of a finalized node stay as they are.
C6_Frozen ==
    \A k \in Invocations :
        (Running(k) /\ pc'[k] \in {"d_loop", "d_for", "d_done"}) =>
            \A n \in NodeSet(nodes) :
                Finalized(k, n) =>
                    /\ distances'[k][n] = distances[k][n]
                    /\ previous_nodes'[k][n] = previous_nodes[k][n]

\* C6: a pop whose distance exceeds the node's recorded distance emits
\* nothing and every other pop emits FINALIZED(node); no node is finalized
\* twice; once FINALIZED(n) is emitted, distances[n] and previous_nodes[n]
\* do not change until the run returns.
C6_StalePopsSilentFinalizedOnce ==
    /\ [](\A k \in Invocations : \A n \in NodeSet(nodes) : TimesFinalized(k, n) <= 1)
    /\ [][C6_PopRule /\ C6_Frozen]_vars

\* A stale entry has just been popped: its node is finalized already, at a
\* smaller distance.
C6_Witness ==
    /\ pc[1] = "d_loop"
    /\ current[1] # <<>>
    /\ current[1][1] > distances[1][current[1][2]]
    /\ Finalized(1, current[1][2])

\* The for loop's turn on one neighbor.
C7_RelaxRule ==
    \A k \in Invocations :
        pc[k] = "d_for" =>
            LET node == current[k][2]
                entry == adj[k][node][nbr[k]]
                candidate == current[k][1] + entry[1]
                neighbor == entry[2]
                best == distances[k][neighbor]
            IN  IF best = Inf \/ candidate < best
                THEN /\ distances'[k] = [distances[k] EXCEPT ![neighbor] = candidate]
                     /\ previous_nodes'[k] = [previous_nodes[k] EXCEPT ![neighbor] = node]
                     /\ Len(priority_queue'[k]) = Len(priority_queue[k]) + 1
                     /\ \A x \in Range(priority_queue'[k]) :
                            Count(priority_queue'[k], x) =
                                Count(priority_queue[k], x)
                                + (IF x = <<candidate, neighbor>> THEN 1 ELSE 0)
                     /\ steps'[k] = Append(steps[k], <<"RELAXED", node, neighbor, candidate>>)
                ELSE /\ distances'[k] = distances[k]
                     /\ previous_nodes'[k] = previous_nodes[k]
                     /\ priority_queue'[k] = priority_queue[k]
                     /\ steps'[k] =
                            Append(steps[k], <<"COMPARE_WORSE", node, neighbor, candidate>>)

\* C7: a neighbor is relaxed (both tables set, the pair pushed, RELAXED
\* emitted) exactly when the candidate is strictly smaller than its recorded
\* distance; otherwise, a tie included, nothing changes and COMPARE_WORSE is
\* emitted.
C7_StrictRelaxation == [][C7_RelaxRule]_vars

\* A neighbor other than the source has just been compared at a candidate
\* equal to its recorded distance, coming from another node than the one that
\* set it.
C7_Witness ==
    /\ steps[1] # <<>>
    /\ LET last == steps[1][Len(steps[1])]
       IN  /\ last[1] = "COMPARE_WORSE"
           /\ last[3] # start_node[1]
           /\ last[4] = distances[1][last[3]]
           /\ previous_nodes[1][last[3]] # last[2]

\* C8: when the run has returned, a node that no path joins to the source has
\* distance infinite, predecessor None and no FINALIZED event; every other
\* node has a finite distance and one FINALIZED event.
C8_UnreachableStayInfinite ==
    \A k \in Invocations :
        pc[k] = "d_done" =>
            LET reach == Reachable(start_node[k])
            IN  \A n \in NodeSet(nodes) :
                IF n \in reach
                THEN distances[k][n] # Inf /\ TimesFinalized(k, n) = 1
                ELSE /\ distances[k][n] = Inf
                     /\ previous_nodes[k][n] = None
                     /\ TimesFinalized(k, n) = 0

\* A finished run on a graph where one node is out of reach of the source and
\* another node was reached from it.
C8_Witness ==
    /\ pc[1] = "d_done"
    /\ \E n \in NodeSet(nodes) : n \notin Reachable(start_node[1])
    /\ \E n \in NodeSet(nodes) : n # start_node[1] /\ previous_nodes[1][n] # None

\* (distance, node) pairs in lexicographic order
LexLess(a, b) == a[1] < b[1] \/ (a[1] = b[1] /\ a[2] < b[2])

\* The pop at the head of the while loop takes the least pair of the frontier
\* and leaves the others.
C9_PopRule ==
    \A k \in Invocations :
        (pc[k] = "d_loop" /\ priority_queue[k] # <<>>) =>
            /\ current'[k] \in Range(priority_queue[k])
            /\ \A x \in Range(priority_queue[k]) : ~LexLess(x, current'[k])
            /\ Len(priority_queue'[k]) = Len(priority_queue[k]) - 1
            /\ \A x \in Range(priority_queue[k]) :
                   Count(priority_queue'[k], x) =
                       Count(priority_queue[k], x) - (IF x = current'[k] THEN 1 ELSE 0)

\* C9: every pop returns the lexicographically least (distance, node) pair of
\* the frontier, so among pairs of equal distance the smaller node index
\* comes first.
C9_PopsLeastPair == [][C9_PopRule]_vars

\* Two nodes were relaxed to the same distance, the larger index first, both
\* were in the frontier together, and the smaller index was finalized first.
C9_Witness ==
    \E p, q, r \in 1 .. Len(steps[1]) :
        /\ p < q /\ q < r
        /\ steps[1][p][1] = "RELAXED"
        /\ steps[1][q][1] = "RELAXED"
        /\ steps[1][p][4] = steps[1][q][4]
        /\ steps[1][q][3] < steps[1][p][3]
        /\ steps[1][r] = <<"FINALIZED", steps[1][q][3]>>
        /\ \A i \in 1 .. r : steps[1][i] # <<"FINALIZED", steps[1][p][3]>>
        /\ distances[1][steps[1][q][3]] = steps[1][q][4]

---------------------------------------------------------------------------
(* Properties of two invocations on one graph *)

KruskalStarted(k) == pc[k] \in {"k_check", "k_result", "k_done"}

DijkstraStarted(k) == pc[k] \in {"d_loop", "d_for", "d_done"}

\* Two invocations of one generator agree on what they have produced so far.
C10_Agree ==
    \A j, k \in Invocations :
        /\ (KruskalStarted(j) /\ KruskalStarted(k)) =>
               /\ sorted_edges[j] = sorted_edges[k]
               /\ IsPrefix(mst_steps[j], mst_steps[k]) \/ IsPrefix(mst_steps[k], mst_steps[j])
               /\ Len(mst_steps[j]) = Len(mst_steps[k]) => ds[j] = ds[k]
               /\ (pc[j] = "k_done" /\ pc[k] = "k_done") => mst_steps[j] = mst_steps[k]
        /\ (DijkstraStarted(j) /\ DijkstraStarted(k) /\ start_node[j] = start_node[k]) =>
               /\ adj[j] = adj[k]
               /\ IsPrefix(steps[j], steps[k]) \/ IsPrefix(steps[k], steps[j])
               /\ (pc[j] = "d_done" /\ pc[k] = "d_done") =>
                      /\ steps[j] = steps[k]
                      /\ distances[j] = distances[k]
                      /\ previous_nodes[j] = previous_nodes[k]

\* C10: two invocations of the same generator on the same graph (and source)
\* yield the same events and the same tables, however their steps and
\* earlier runs are interleaved, and no step changes the graph.
C10_InvocationsIndependent ==
    /\ []C10_Agree
    /\ [][nodes' = nodes /\ edges' = edges]_vars

\* One Kruskal invocation is complete, with a REJECT, while the other has
\* only checked its first edge: their disjoint sets differ.
C10_Witness ==
    /\ pc[1] = "k_done"
    /\ pc[2] = "k_check"
    /\ Len(mst_steps[2]) = 1
    /\ Tagged(mst_steps[1], "REJECT") # <<>>
    /\ ds[1] # ds[2]

---------------------------------------------------------------------------
(* reconstruct_path, called on the tables a Dijkstra run returned *)

\* path.append(x): the node goes to the wrong end of the list
InsertLast(path, x) == Append(path, x)

\* path.insert(0, x)
Insert0(path, x) == <<x>> \o path

\* The while loop of reconstruct_path: current_node walks the predecessors
\* until it is None, or until it is start_node (the break).
RECURSIVE WalkBack(_, _, _, _)
WalkBack(prev, start, cur, path) ==
    IF cur = None
    THEN path
    ELSE LET longer == Insert0(path, cur)
         IN  IF cur = start
             THEN longer
             ELSE WalkBack(prev, start, prev[cur], longer)

\* reconstruct_path without the test path[0] == start_node
reconstruct_path_unchecked(prev, start, end) ==
    LET path == WalkBack(prev, start, end, <<>>)
    IN  [i \in 1 .. Len(path) - 1 |-> <<path[i], path[i + 1]>>]

reconstruct_path(prev, start, end) ==
    LET path == WalkBack(prev, start, end, <<>>)
    IN  IF path # <<>> /\ path[1] = start
        THEN [i \in 1 .. Len(path) - 1 |-> <<path[i], path[i + 1]>>]
        ELSE <<>>

\* reconstruct_path(previous_nodes, s, t) on the tables of a completed run
ReconstructPathFrom(k, s, t) ==
    /\ pc[k] = "d_done"
    /\ from_node' = [from_node EXCEPT ![k] = s]
    /\ end_node' = [end_node EXCEPT ![k] = t]
    /\ path_edges' = [path_edges EXCEPT ![k] =
                          reconstruct_path(previous_nodes[k], s, t)]
    /\ UNCHANGED <<graph, pc, kruskalLocals, dijkstraLocals, ds_call, gui>>

\* The consumer asks for the path to node t, from the source of the run.
ReconstructPath(k, t) == ReconstructPathFrom(k, start_node[k], t)

NextPath ==
    \/ \E k \in Invocations : DijkstraCall(k, SourceNode)
    \/ \E k \in Invocations : DijkstraPop(k)
    \/ \E k \in Invocations : DijkstraRelax(k)
    \/ \E k \in Invocations : DijkstraReturn(k)
    \/ \E k \in Invocations : \E t \in NodeSet(nodes) : ReconstructPath(k, t)

SpecPath == Init /\ [][NextPath]_vars

\* reconstruct_path has returned for invocation k
PathReturned(k) == pc[k] = "d_done" /\ end_node[k] # None

\* C11: for the predecessor map of a Dijkstra run from s and a reachable
\* target t other than s, reconstruct_path returns a non-empty list of pairs
\* from the source on: the first pair starts at s, the last ends at t, each
\* pair ends where the next starts, and previous_nodes[b] = a for every
\* pair (a, b).
C11_PathIsPredecessorChain ==
    \A k \in Invocations :
        (/\ PathReturned(k)
         /\ end_node[k] # start_node[k]
         /\ end_node[k] \in Reachable(start_node[k])) =>
            LET p == path_edges[k]
            IN  /\ Len(p) >= 1
                /\ p[1][1] = start_node[k]
                /\ p[Len(p)][2] = end_node[k]
                /\ \A i \in 1 .. Len(p) - 1 : p[i][2] = p[i + 1][1]
                /\ \A i \in 1 .. Len(p) : previous_nodes[k][p[i][2]] = p[i][1]

\* A path of two pairs has been returned.
C11_Witness ==
    /\ PathReturned(1)
    /\ end_node[1] # start_node[1]
    /\ Len(path_edges[1]) = 2

---------------------------------------------------------------------------
(* reconstruct_path asked for a path from any node, not only the source *)

PathMaxN == 3
PathMaxEdges == 2
PathMaxW == 1

InitPath ==
    /\ nodes \in 1 .. PathMaxN
    /\ edges \in EdgeLists(nodes, PathMaxEdges, PathMaxW)
    /\ Idle({1})

NextPathFrom ==
    \/ \E k \in Invocations : DijkstraCall(k, SourceNode)
    \/ \E k \in Invocations : DijkstraPop(k)
    \/ \E k \in Invocations : DijkstraRelax(k)
    \/ \E k \in Invocations : DijkstraReturn(k)
    \/ \E k \in Invocations : \E s, t \in NodeSet(nodes) : ReconstructPathFrom(k, s, t)

SpecPathFrom == InitPath /\ [][NextPathFrom]_vars

\* The nodes the backward walk from n visits when nothing stops it but None
RECURSIVE Ancestors(_, _)
Ancestors(prev, n) == IF n = None THEN {} ELSE {n} \cup Ancestors(prev, prev[n])

\* C12: reconstruct_path returns the empty list when source and target are
\* the same node, and when the backward walk from the target comes to a None
\* predecessor without having met the source; when the node that is both
\* source and target is the source of the run, its distance is 0.
C12_EmptyPathCases ==
    \A k \in Invocations :
        PathReturned(k) =>
            /\ from_node[k] = end_node[k] => path_edges[k] = <<>>
            /\ (from_node[k] = end_node[k] /\ from_node[k] = start_node[k]) =>
                   distances[k][end_node[k]] = 0
            /\ from_node[k] \notin Ancestors(previous_nodes[k], end_node[k]) =>
                   path_edges[k] = <<>>

\* The walk went from the target over another node to the source of the
\* run, where the predecessor is None, and never met the node asked for.
C12_Witness ==
    /\ PathReturned(1)
    /\ from_node[1] \notin Ancestors(previous_nodes[1], end_node[1])
    /\ Cardinality(Ancestors(previous_nodes[1], end_node[1])) >= 2
    /\ path_edges[1] = <<>>

---------------------------------------------------------------------------
(* The cost the consumer of a path shows for each of its pairs *)

\* next(cost for cost, n1, n2 in self.edges if the edge joins u and v):
\* the cost of the first listed edge between the two nodes
edge_cost(es, u, v) ==
    LET joining == {i \in 1 .. Len(es) :
                        \/ es[i][2] = u /\ es[i][3] = v
                        \/ es[i][2] = v /\ es[i][3] = u}
        first == CHOOSE i \in joining : \A j \in joining : i <= j
    IN  es[first][1]

\* The sum of the costs looked up for the first n pairs of a path
RECURSIVE PathCost(_, _, _)
PathCost(es, p, n) ==
    IF n = 0 THEN 0 ELSE PathCost(es, p, n - 1) + edge_cost(es, p[n][1], p[n][2])

\* Two listed edges join the same pair of nodes
ParallelEdges ==
    \E i, j \in 1 .. Len(edges) :
        i # j /\ edges[i][2] = edges[j][2] /\ edges[i][3] = edges[j][3]

\* C13: for every graph with non-negative weights, parallel edges included,
\* the costs looked up for the pairs of the path returned for a reachable
\* target (for each pair, the first listed edge joining its nodes) add up to
\* distances[target].
C13_PathCostIsDistance ==
    \A k \in Invocations :
        (PathReturned(k) /\ end_node[k] \in Reachable(start_node[k])) =>
            PathCost(edges, path_edges[k], Len(path_edges[k])) = distances[k][end_node[k]]

\* The same sum on the graphs that list no pair of nodes twice
PathCostIsDistanceWithoutParallelEdges ==
    ParallelEdges \/ C13_PathCostIsDistance

---------------------------------------------------------------------------
(* The engine called with an edge list that is not a valid graph: a         *)
(* negative weight, or an endpoint that is not a node. Nothing in           *)
(* kruskal_mst_steps or dijkstra_shortest_path_with_steps looks at the      *)
(* edges before using them.                                                 *)

BadMaxN == 3
BadMaxEdges == 2
BadMaxW == 1
\* On a negative weight the Dijkstra loop may never end: the model follows
\* it for this many events.
BadMaxSteps == 6

NegativeWeight(e) == e[1] < 0

OutOfRange(n, e) == e[2] \notin NodeSet(n) \/ e[3] \notin NodeSet(n)

\* Edges as before, and edges with weight -1 or with endpoint n
BadEdgeChoices(n, maxw) ==
    {e \in {<<w, u, v>> : w \in -1 .. maxw, u \in NodeSet(n), v \in NodeSet(n + 1)} :
        e[2] < e[3]}

InitBad ==
    /\ nodes \in 1 .. BadMaxN
    /\ edges \in UNION {[1 .. m -> BadEdgeChoices(nodes, BadMaxW)] : m \in 1 .. BadMaxEdges}
    /\ \E i \in 1 .. Len(edges) : NegativeWeight(edges[i]) \/ OutOfRange(nodes, edges[i])
    /\ Idle({1})

DijkstraRelaxWithin(k) == Len(steps[k]) < BadMaxSteps /\ DijkstraRelax(k)

NextBad ==
    \/ \E k \in Invocations : KruskalCall(k)
    \/ \E k \in Invocations : KruskalFirst(k)
    \/ \E k \in Invocations : KruskalDecide(k)
    \/ \E k \in Invocations : KruskalLoop(k)
    \/ \E k \in Invocations : DijkstraCall(k, SourceNode)
    \/ \E k \in Invocations : DijkstraPop(k)
    \/ \E k \in Invocations : DijkstraRelaxWithin(k)
    \/ \E k \in Invocations : DijkstraReturn(k)

SpecBad == InitBad /\ [][NextBad]_vars

\* The Kruskal generator has yielded nothing.
NoKruskalEvent(k) == mst_steps[k] = <<>>

\* The Dijkstra call has not returned an event list (a run that returns has
\* at least finalized its source).
NoDijkstraEvent(k) == pc[k] # "d_done"

\* C14: on an edge list with a negative weight the call fails and neither
\* the Kruskal generator nor the Dijkstra run delivers any event.
C14_NegativeWeightNoEvent ==
    (\E i \in 1 .. Len(edges) : NegativeWeight(edges[i])) =>
        \A k \in Invocations : NoKruskalEvent(k) /\ NoDijkstraEvent(k)

\* The Dijkstra half of C14 alone
NegativeWeightNoDijkstraEvent ==
    (\E i \in 1 .. Len(edges) : NegativeWeight(edges[i])) =>
        \A k \in Invocations : NoDijkstraEvent(k)

\* C15: on an edge list with an endpoint outside 0 .. N-1 the run fails
\* before any event: no prefix of the events is delivered, by the Kruskal
\* generator or by the Dijkstra run.
C15_OutOfRangeNoEvent ==
    (\E i \in 1 .. Len(edges) : OutOfRange(nodes, edges[i])) =>
        \A k \in Invocations : NoKruskalEvent(k) /\ NoDijkstraEvent(k)

\* The Dijkstra half of C15 alone: the call raises while it builds adj
OutOfRangeNoDijkstraEvent ==
    (\E i \in 1 .. Len(edges) : OutOfRange(nodes, edges[i])) =>
        \A k \in Invocations : NoDijkstraEvent(k)

---------------------------------------------------------------------------
(* Termination of the two algorithms *)

\* One invocation at a time, of either algorithm, from any source
SpecOne == InitPath /\ [][Next]_vars

\* The events of a run that compare the edge from a to b or from b to a
Between(k, a, b) ==
    {i \in 1 .. Len(steps[k]) :
        /\ steps[k][i][1] \in {"RELAXED", "COMPARE_WORSE"}
        /\ {steps[k][i][2], steps[k][i][3]} = {a, b}}

\* The listed edges that join a and b
Joining(a, b) == {i \in 1 .. Len(edges) : {edges[i][2], edges[i][3]} = {a, b}}

\* What is left of a Dijkstra run: twice the events still possible, plus
\* the entries of the frontier
DijkstraMeasure(k) ==
    2 * (nodes + 2 * Len(edges) - Len(steps[k])) + Len(priority_queue[k])

\* A trace never holds more than one FINALIZED per node, two comparisons per
\* listed edge, and one CHECK and one decision per edge.
C16_Finite ==
    \A k \in Invocations :
        /\ DijkstraStarted(k) =>
               /\ \A n \in NodeSet(nodes) : TimesFinalized(k, n) <= 1
               /\ \A a, b \in NodeSet(nodes) :
                      Cardinality(Between(k, a, b)) <= 2 * Cardinality(Joining(a, b))
               /\ Len(steps[k]) <= nodes + 2 * Len(edges)
        /\ KruskalStarted(k) => Len(mst_steps[k]) <= 2 * Len(edges)

\* Every step of a Dijkstra run returns or lowers the measure; every pull on
\* a Kruskal generator ends the trace or lengthens it.
C16_Progress ==
    \A k \in Invocations :
        /\ (Running(k) /\ <<pc[k], steps[k], priority_queue[k]>>'
                            # <<pc[k], steps[k], priority_queue[k]>>) =>
               \/ pc'[k] = "d_done" /\ priority_queue[k] = <<>>
               \/ Running(k)' /\ DijkstraMeasure(k)' < DijkstraMeasure(k)
        /\ (/\ pc[k] \in {"k_new", "k_check", "k_result"}
            /\ pc'[k] \in {"k_check", "k_result", "k_done"}
            /\ pc'[k] # pc[k]) =>
               \/ pc'[k] = "k_done"
               \/ Len(mst_steps'[k]) = Len(mst_steps[k]) + 1

\* A run that has not returned can take its next step.
C16_NotStuck ==
    \A k \in Invocations :
        Running(k) => ENABLED (DijkstraPop(k) \/ DijkstraRelax(k) \/ DijkstraReturn(k))

\* C16: every Dijkstra run on a graph with non-negative weights ends: its
\* trace is bounded (at most one FINALIZED per node, at most two comparison
\* events per edge), a run that has not returned can always step, and each
\* step brings it nearer to an empty frontier; every Kruskal trace is
\* bounded and every pull lengthens or ends it.
C16_RunsTerminate ==
    /\ []C16_Finite
    /\ []C16_NotStuck
    /\ [][C16_Progress]_vars

\* A run has returned after as many events as its graph allows, a node
\* having been relaxed twice and so one of the pops having been stale.
C16_Witness ==
    /\ pc[1] = "d_done"
    /\ Len(edges) >= 2
    /\ Len(steps[1]) = nodes + 2 * Len(edges)
    /\ \E i \in 1 .. Len(steps[1]) : \E j \in i + 1 .. Len(steps[1]) :
           /\ steps[1][i][1] = "RELAXED"
           /\ steps[1][j][1] = "RELAXED"
           /\ steps[1][i][3] = steps[1][j][3]

---------------------------------------------------------------------------
(* The default farm graph *)

\* len(FARM_NODES)
FARM_NODES == 5

DEFAULT_FARM_EDGES ==
    << <<10, 0, 1>>, <<15, 0, 3>>, <<5, 1, 2>>,
       <<25, 1, 3>>, <<20, 2, 4>>, <<12, 3, 4>>, <<30, 0, 4>> >>

InitFarm ==
    /\ nodes = FARM_NODES
    /\ edges = DEFAULT_FARM_EDGES
    /\ Idle({1})

NextFarm ==
    \/ \E k \in Invocations : KruskalCall(k)
    \/ \E k \in Invocations : KruskalFirst(k)
    \/ \E k \in Invocations : KruskalDecide(k)
    \/ \E k \in Invocations : KruskalLoop(k)
    \/ \E k \in Invocations : \E s \in NodeSet(nodes) : DijkstraCall(k, s)
    \/ \E k \in Invocations : DijkstraPop(k)
    \/ \E k \in Invocations : DijkstraRelax(k)
    \/ \E k \in Invocations : DijkstraReturn(k)
    \/ \E k \in Invocations : \E t \in NodeSet(nodes) : ReconstructPath(k, t)

SpecFarm == InitFarm /\ [][NextFarm]_vars

\* The edges of the events of a trace that carry the tag, in order
EdgesTagged(t, tag) == [i \in 1 .. Len(Tagged(t, tag)) |-> EdgeOf(Tagged(t, tag)[i])]

\* C17: on the default farm graph Kruskal accepts (5,1,2), (10,0,1),
\* (12,3,4), (15,0,3) in that order, of total weight 42, and rejects the
\* other three edges; Dijkstra from node 0 gives node 4 the distance 27, and
\* reconstruct_path(previous_nodes, 0, 4) is [(0,3), (3,4)].
C17_FarmGraphResults ==
    \A k \in Invocations :
        /\ pc[k] = "k_done" =>
               /\ EdgesTagged(mst_steps[k], "ACCEPT")
                      = << <<5, 1, 2>>, <<10, 0, 1>>, <<12, 3, 4>>, <<15, 0, 3>> >>
               /\ AcceptedWeight(mst_steps[k]) = 42
               /\ Range(EdgesTagged(mst_steps[k], "REJECT"))
                      = {<<20, 2, 4>>, <<25, 1, 3>>, <<30, 0, 4>>}
               /\ Len(Tagged(mst_steps[k], "REJECT")) = 3
        /\ (pc[k] = "d_done" /\ start_node[k] = 0) => distances[k][4] = 27
        /\ (PathReturned(k) /\ from_node[k] = 0 /\ end_node[k] = 4) =>
               path_edges[k] = << <<0, 3>>, <<3, 4>> >>

\* The path from node 0 to node 4 has been returned.
C17_Witness ==
    /\ PathReturned(1)
    /\ start_node[1] = 0
    /\ from_node[1] = 0
    /\ end_node[1] = 4
    /\ distances[1][4] = 27
    /\ Len(path_edges[1]) = 2

---------------------------------------------------------------------------
(* The graph of a single node *)

\* C18: on the graph of one node and no edge the Kruskal trace is empty, and
\* Dijkstra from node 0 returns a distance table with node 0 alone, at 0,
\* no predecessor for it, and the one event FINALIZED(0).
C18_SingleNode ==
    (nodes = 1 /\ edges = <<>>) =>
        \A k \in Invocations :
            /\ KruskalStarted(k) => mst_steps[k] = <<>>
            /\ pc[k] = "d_done" =>
                   /\ DOMAIN distances[k] = {0}
                   /\ distances[k][0] = 0
                   /\ DOMAIN previous_nodes[k] = {0}
                   /\ previous_nodes[k][0] = None
                   /\ steps[k] = << <<"FINALIZED", 0>> >>

\* The run on the single node has returned.
C18_Witness ==
    /\ nodes = 1
    /\ edges = <<>>
    /\ pc[1] = "d_done"
    /\ start_node[1] = 0
    /\ Len(steps[1]) = 1

---------------------------------------------------------------------------
(* A DisjointSet object and any sequence of find and union calls on it *)

DsMaxSize == 4

InitDs ==
    /\ nodes \in 1 .. DsMaxSize
    /\ edges = <<>>
    /\ Idle({1})

\* ds = DisjointSet(size)
DsNew(k) ==
    /\ pc[k] \in {"idle", "ds"}
    /\ pc' = [pc EXCEPT ![k] = "ds"]
    /\ ds' = [ds EXCEPT ![k] = DisjointSet(nodes)]
    /\ ds_call' = <<>>
    /\ UNCHANGED <<graph, sorted_edges, idx, mst_steps, dijkstraLocals, pathLocals, gui>>

\* ds.find(i); ds_call keeps the call, what it returned and the set before it
DsFind(k, i) ==
    /\ pc[k] = "ds"
    /\ LET r == find(ds[k].parent, i)
       IN  /\ ds' = [ds EXCEPT ![k] = [parent |-> r[2], rank |-> ds[k].rank]]
           /\ ds_call' = <<"find", i, i, r[1], ds[k]>>
    /\ UNCHANGED <<graph, pc, sorted_edges, idx, mst_steps, dijkstraLocals, pathLocals, gui>>

\* ds.union(i, j)
DsUnion(k, i, j) ==
    /\ pc[k] = "ds"
    /\ LET r == union(ds[k], i, j)
       IN  /\ ds' = [ds EXCEPT ![k] = r.ds]
           /\ ds_call' = <<"union", i, j, r.ret, ds[k]>>
    /\ UNCHANGED <<graph, pc, sorted_edges, idx, mst_steps, dijkstraLocals, pathLocals, gui>>

NextDs ==
    \/ \E k \in Invocations : DsNew(k)
    \/ \E k \in Invocations : \E i \in NodeSet(nodes) : DsFind(k, i)
    \/ \E k \in Invocations : \E i, j \in NodeSet(nodes) : DsUnion(k, i, j)

SpecDs == InitDs /\ [][NextDs]_vars

\* The last call on the set was the method
Called(method) == ds_call # <<>> /\ ds_call[1] = method

\* The node reached from i by n parent links
RECURSIVE Up(_, _, _)
Up(parent, i, n) == IF n = 0 THEN i ELSE Up(parent, parent[i], n - 1)

\* Every chain of parent links comes to a node that is its own parent.
Acyclic(parent) ==
    \A i \in DOMAIN parent :
        LET top == Up(parent, i, Cardinality(DOMAIN parent))
        IN  parent[top] = top

\* The root of the tree of i (parent links followed, nothing written)
Root(parent, i) == Up(parent, i, Cardinality(DOMAIN parent))

\* The nodes on the way from i to its root, both included
PathToRoot(parent, i) == {Up(parent, i, n) : n \in 0 .. Cardinality(DOMAIN parent)}

\* The component of i
Class(parent, i) == {x \in DOMAIN parent : Root(parent, x) = Root(parent, i)}

Partition(parent) == {Class(parent, i) : i \in DOMAIN parent}

\* C19: union(i, j) returns True exactly when i and j were in different
\* components before the call; after a True, find(i) = find(j), the two
\* components are one with a single representative, the other components
\* are as they were and there is one component less; it returns False
\* exactly when the two were in the same component already.
C19_UnionMergesComponents ==
    Called("union") =>
        LET i == ds_call[2]
            j == ds_call[3]
            ret == ds_call[4]
            before == ds_call[5].parent
            after == ds[1].parent
            Ci == Class(before, i)
            Cj == Class(before, j)
        IN  /\ Acyclic(before) /\ Acyclic(after)
            /\ ret = (Ci # Cj)
            /\ ret =>
                   /\ find(after, i)[1] = find(after, j)[1]
                   /\ Root(after, i) = Root(after, j)
                   /\ Class(after, i) = Ci \cup Cj
                   /\ Cardinality({r \in Ci \cup Cj : after[r] = r}) = 1
                   /\ Partition(after) = (Partition(before) \ {Ci, Cj}) \cup {Ci \cup Cj}
                   /\ Cardinality(Partition(after)) = Cardinality(Partition(before)) - 1

\* A union has made one component of two components of two nodes each.
C19_Witness ==
    /\ Called("union")
    /\ ds_call[4] = TRUE
    /\ Cardinality(Class(ds_call[5].parent, ds_call[2])) = 2
    /\ Cardinality(Class(ds_call[5].parent, ds_call[3])) = 2
    /\ Cardinality(Class(ds[1].parent, ds_call[2])) = 4

\* C20: in every state any sequence of find and union calls leads to, find(i)
\* ends and returns the root of the component of i; find(find(i)) = find(i),
\* and a find(i) repeated at once returns the same and changes nothing; after
\* find(i) every node that was on the way from i to the root has the root
\* for parent; the partition is as it was.
C20_FindReturnsRootAndCompresses ==
    /\ pc[1] = "ds" => Acyclic(ds[1].parent)
    /\ Called("find") =>
        LET i == ds_call[2]
            ret == ds_call[4]
            before == ds_call[5].parent
            after == ds[1].parent
        IN  /\ ret = Root(before, i)
            /\ before[ret] = ret
            /\ find(after, ret)[1] = ret
            /\ find(after, i) = <<ret, after>>
            /\ \A n \in PathToRoot(before, i) : after[n] = ret
            /\ \A n \in DOMAIN before \ PathToRoot(before, i) : after[n] = before[n]
            /\ Partition(after) = Partition(before)
            /\ ds[1].rank = ds_call[5].rank

\* A find from a node two links below its root has given it the root for
\* parent.
C20_Witness ==
    /\ Called("find")
    /\ Cardinality(PathToRoot(ds_call[5].parent, ds_call[2])) = 3
    /\ ds[1].parent[ds_call[2]] = ds_call[4]
    /\ ds[1] # ds_call[5]

---------------------------------------------------------------------------
(* union: what it writes *)

\* The parent array after find(i) and find(j) have compressed their paths
Compressed(parent, i, j) ==
    [n \in DOMAIN parent |->
        IF n \in PathToRoot(parent, i) \cup PathToRoot(parent, j)
        THEN Root(parent, n)
        ELSE parent[n]]

\* The last call was a union of two nodes of one component
UnionOfSame ==
    /\ Called("union")
    /\ Class(ds_call[5].parent, ds_call[2]) = Class(ds_call[5].parent, ds_call[3])

\* C21 as stated: a union of two nodes of one component returns False and
\* leaves the parent and rank arrays equal to what they were.
C21_UnionOfSameWritesNothing ==
    UnionOfSame => (ds_call[4] = FALSE /\ ds[1] = ds_call[5])

\* C21 amended: a union of two nodes of one component returns False, leaves
\* the rank array and the partition as they were, and changes the parent
\* array by the path compression of its two find calls alone: the nodes on
\* the way from i and from j to the root get the root for parent, every
\* other entry is as it was.
C21_UnionOfSameOnlyCompresses ==
    UnionOfSame =>
        /\ ds_call[4] = FALSE
        /\ ds[1].rank = ds_call[5].rank
        /\ ds[1].parent = Compressed(ds_call[5].parent, ds_call[2], ds_call[3])
        /\ Partition(ds[1].parent) = Partition(ds_call[5].parent)

\* A union of two nodes of one component has returned False and has
\* rewritten a parent entry.
C21_Witness ==
    /\ UnionOfSame
    /\ ds_call[4] = FALSE
    /\ ds_call[2] # ds_call[3]
    /\ ds[1].parent # ds_call[5].parent

\* C22: a union that merges two components puts the root of lower rank
\* under the root of higher rank and changes no rank; on equal ranks it
\* puts j's root under i's root and adds one to the rank of i's root; no
\* other parent or rank entry changes, but for the path compression of the
\* two find calls.
C22_UnionByRank ==
    (Called("union") /\ ds_call[4] = TRUE) =>
        LET before == ds_call[5]
            after == ds[1]
            root_i == Root(before.parent, ds_call[2])
            root_j == Root(before.parent, ds_call[3])
            p == Compressed(before.parent, ds_call[2], ds_call[3])
        IN  /\ root_i # root_j
            /\ before.rank[root_i] < before.rank[root_j] =>
                   /\ after.parent = [p EXCEPT ![root_i] = root_j]
                   /\ after.rank = before.rank
            /\ before.rank[root_i] > before.rank[root_j] =>
                   /\ after.parent = [p EXCEPT ![root_j] = root_i]
                   /\ after.rank = before.rank
            /\ before.rank[root_i] = before.rank[root_j] =>
                   /\ after.parent = [p EXCEPT ![root_j] = root_i]
                   /\ after.rank = [before.rank EXCEPT ![root_i] = before.rank[root_i] + 1]

\* i's root, of lower rank, has gone under j's root.
C22_Witness ==
    /\ Called("union")
    /\ ds_call[4] = TRUE
    /\ LET root_i == Root(ds_call[5].parent, ds_call[2])
           root_j == Root(ds_call[5].parent, ds_call[3])
       IN  /\ ds_call[5].rank[root_i] < ds_call[5].rank[root_j]
           /\ ds[1].parent[root_i] = root_j
           /\ ds[1].rank = ds_call[5].rank

\* C29: in every state that find and union calls lead to from the singletons,
\* the parent links from any node come to a root without meeting a node
\* twice, every node that is not a root has a rank below the rank of its
\* parent, and no call changes the rank of a node that was not a root before
\* it (nor makes it a root again).
C29_RankInvariants ==
    pc[1] = "ds" =>
        /\ Acyclic(ds[1].parent)
        /\ \A n \in DOMAIN ds[1].parent :
               LET way == [m \in 0 .. Cardinality(DOMAIN ds[1].parent) |->
                               Up(ds[1].parent, n, m)]
               IN  \A a, b \in DOMAIN way :
                       (a < b /\ way[a] = way[b]) => ds[1].parent[way[a]] = way[a]
        /\ \A n \in DOMAIN ds[1].parent :
               ds[1].parent[n] # n => ds[1].rank[n] < ds[1].rank[ds[1].parent[n]]
        /\ ds_call # <<>> =>
               \A n \in DOMAIN ds[1].parent :
                   ds_call[5].parent[n] # n =>
                       /\ ds[1].rank[n] = ds_call[5].rank[n]
                       /\ ds[1].parent[n] # n

\* A root of rank 1 has gone under another root, whose rank is now 2, and
\* has kept its rank.
C29_Witness ==
    /\ Called("union")
    /\ \E n \in DOMAIN ds[1].parent :
           /\ ds_call[5].parent[n] = n
           /\ ds[1].parent[n] # n
           /\ ds[1].rank[n] = 1
           /\ ds[1].rank[ds[1].parent[n]] = 2

---------------------------------------------------------------------------
(* Every listed edge is walked in both directions *)

\* The comparison events of a trace
Comparisons(k) ==
    {i \in 1 .. Len(steps[k]) : steps[k][i][1] \in {"RELAXED", "COMPARE_WORSE"}}

\* The comparison events from u to v over an edge of weight w: the distance
\* of the event is the distance of u plus the weight
ComparisonsOver(k, u, v, w) ==
    {i \in Comparisons(k) :
        /\ steps[k][i][2] = u
        /\ steps[k][i][3] = v
        /\ steps[k][i][4] = distances[k][u] + w}

\* The listed edges of weight w that join u and v
ListedEdges(u, v, w) ==
    {i \in 1 .. Len(edges) :
        edges[i][1] = w /\ {edges[i][2], edges[i][3]} = {u, v}}

\* C23: a listed edge is walked in both directions though it is listed once:
\* when the run has returned, for every edge (w, u, v) with endpoints in
\* reach of the source the trace holds one RELAXED or COMPARE_WORSE event
\* from u to v and one from v to u (as many as there are listed edges of
\* that weight between the two), and the number of these events is twice
\* the number of edges in the component of the source.
C23_EdgesWalkedBothWays ==
    \A k \in Invocations :
        pc[k] = "d_done" =>
            LET reach == Reachable(start_node[k])
            IN  /\ \A i \in 1 .. Len(edges) :
                       LET w == edges[i][1]
                           u == edges[i][2]
                           v == edges[i][3]
                       IN  u \in reach =>
                               /\ Cardinality(ComparisonsOver(k, u, v, w))
                                      = Cardinality(ListedEdges(u, v, w))
                               /\ Cardinality(ComparisonsOver(k, v, u, w))
                                      = Cardinality(ListedEdges(u, v, w))
                /\ Cardinality(Comparisons(k))
                       = 2 * Cardinality({i \in 1 .. Len(edges) : edges[i][2] \in reach})

\* A run has returned on a graph of two edges, each between its own pair of
\* nodes: an edge was RELAXED one way and found worse the other way.
C23_Witness ==
    /\ pc[1] = "d_done"
    /\ Len(edges) = 2
    /\ ~ParallelEdges
    /\ Cardinality(Comparisons(1)) = 4
    /\ \E i, j \in Comparisons(1) :
           /\ steps[1][i][1] = "RELAXED"
           /\ steps[1][j][1] = "COMPARE_WORSE"
           /\ steps[1][i][2] = steps[1][j][3]
           /\ steps[1][i][3] = steps[1][j][2]

---------------------------------------------------------------------------
(* The order of the FINALIZED events *)

\* The nodes of the FINALIZED events of a trace, in order
FinalizedNodes(k) ==
    LET f == Tagged(steps[k], "FINALIZED")
    IN  [i \in 1 .. Len(f) |-> f[i][2]]

\* The distances of the finalized nodes never go down along the trace.
C27_Ordered ==
    \A k \in Invocations :
        DijkstraStarted(k) =>
            LET f == FinalizedNodes(k)
            IN  \A i \in 1 .. Len(f) - 1 :
                    /\ distances[k][f[i]] # Inf
                    /\ distances[k][f[i]] <= distances[k][f[i + 1]]

\* A step of a run does not change the distance of a node that is finalized
\* after it: not the step that finalizes the node, which pops the node at
\* that very distance, and no step after it.
C27_Settled ==
    \A k \in Invocations :
        (Running(k) /\ DijkstraStarted(k)') =>
            /\ \A n \in NodeSet(nodes) :
                   Finalized(k, n)' => distances'[k][n] = distances[k][n]
            /\ Len(steps'[k]) > Len(steps[k]) /\ steps'[k][Len(steps'[k])][1] = "FINALIZED" =>
                   current'[k][1] = distances'[k][current'[k][2]]

\* C27: the FINALIZED events of a run come in non-decreasing order of the
\* final distance of their node, and the distance a node has when it is
\* FINALIZED is the one the returned table has for it.
C27_FinalizedInDistanceOrder ==
    /\ []C27_Ordered
    /\ [][C27_Settled]_vars

\* A run has returned after finalizing three nodes, the last of them farther
\* than the first, and one node was relaxed twice.
C27_Witness ==
    /\ pc[1] = "d_done"
    /\ Len(FinalizedNodes(1)) = 3
    /\ distances[1][FinalizedNodes(1)[1]] < distances[1][FinalizedNodes(1)[3]]
    /\ \E i \in 1 .. Len(steps[1]) :
           /\ steps[1][i][1] = "RELAXED"
           /\ steps[1][i][4] > distances[1][steps[1][i][3]]

---------------------------------------------------------------------------
(* The predecessor map is a tree rooted at the source *)

\* The node, or None, reached from n by m predecessor links
RECURSIVE UpPrevious(_, _, _)
UpPrevious(prev, n, m) ==
    IF m = 0 \/ n = None THEN n ELSE UpPrevious(prev, prev[n], m - 1)

\* The map of a run in any of its states
C28_Tree(k) ==
    LET s == start_node[k]
        prev == previous_nodes[k]
    IN  /\ prev[s] = None
        /\ \A n \in NodeSet(nodes) \ {s} :
               /\ prev[n] # None <=> distances[k][n] # Inf
               /\ prev[n] # None =>
                      /\ prev[n] \in NodeSet(nodes)
                      /\ Finalized(k, prev[n])
                      /\ \E i \in 1 .. Len(edges) :
                             /\ {edges[i][2], edges[i][3]} = {prev[n], n}
                             /\ distances[k][n] = distances[k][prev[n]] + edges[i][1]
        /\ \A n \in NodeSet(nodes) : UpPrevious(prev, n, nodes) = None

\* C28: in every state of a run the predecessor map is a tree rooted at the
\* source: the source has no predecessor; any other node has one exactly
\* when its distance is finite, and then the predecessor p is a finalized
\* node and the distance of the node is the distance of p plus the weight of
\* a listed edge joining the two; the predecessor links from any node come
\* to None without a cycle, and reconstruct_path returns, with a path
\* shorter than the number of nodes, on every map of a run.
C28_PredecessorTree ==
    \A k \in Invocations :
        /\ DijkstraStarted(k) => C28_Tree(k)
        /\ PathReturned(k) => Len(path_edges[k]) < nodes

\* reconstruct_path has returned a path of two pairs from the source.
C28_Witness ==
    /\ PathReturned(1)
    /\ from_node[1] = start_node[1]
    /\ Len(path_edges[1]) = 2
    /\ previous_nodes[1][previous_nodes[1][end_node[1]]] = start_node[1]

---------------------------------------------------------------------------
(* The Tk application: SmartIrrigationApp, SetupPage, IrrigationSimulator.  *)
(* A handler is one action. Of each page one object exists, so a page is   *)
(* one record of its attributes. The engine calls of a handler run to      *)
(* their end inside the handler: they are operators on the edge list.      *)

\* The rows of the setup form the model fills in: the pipes of
\* DEFAULT_FARM_EDGES between the source, Field A and Field C (a cycle).
SetupRows == <<DEFAULT_FARM_EDGES[1], DEFAULT_FARM_EDGES[2], DEFAULT_FARM_EDGES[4]>>

\* float('nan')
NaN == 2000000

\* a < b on floats: every comparison with nan is False
FloatLt(a, b) == a # NaN /\ b # NaN /\ a < b

Digits == <<"0", "1", "2", "3", "4", "5", "6", "7", "8", "9">>

IsDigit(c) == \E d \in DOMAIN Digits : Digits[d] = c

DigitValue(c) == (CHOOSE d \in DOMAIN Digits : Digits[d] = c) - 1

\* The value of a string of decimal digits.
RECURSIVE Decimal(_)
Decimal(text) ==
    IF text = <<>> THEN 0
    ELSE 10 * Decimal(SubSeq(text, 1, Len(text) - 1)) + DigitValue(text[Len(text)])

\* float(text) on a string of characters: an optional sign, then decimal
\* digits, "nan" or "inf"; everything else raises ValueError.
float(text) ==
    LET signed == text # <<>> /\ text[1] \in {"-", "+"}
        sign == IF text # <<>> /\ text[1] = "-" THEN -1 ELSE 1
        rest == IF signed THEN Tail(text) ELSE text
    IN  IF rest # <<>> /\ \A i \in DOMAIN rest : IsDigit(rest[i])
        THEN [raised |-> FALSE, value |-> sign * Decimal(rest)]
        ELSE IF rest = <<"n", "a", "n">>
        THEN [raised |-> FALSE, value |-> NaN]
        ELSE IF rest = <<"i", "n", "f">>
        THEN [raised |-> FALSE, value |-> sign * Inf]
        ELSE [raised |-> TRUE, value |-> None]

\* What the user may type into a cost entry.
Entries == {<<"5">>, <<"-", "1">>, <<"a">>, <<"n", "a", "n">>}

\* IrrigationSimulator before the object is made (simulator_page is None).
\* The labels hold None while they show "--".
NoSimulator ==
    [edges |-> <<>>, active_animations |-> <<>>, total_mst_cost |-> None,
     mst_cost_label |-> None, dijkstra_steps |-> <<>>, target_node |-> None,
     distances |-> <<>>, previous_nodes |-> <<>>]

\* No run of run_and_animate_mst has got past its update().
NoMst == [run |-> 0, mst_steps |-> <<>>, consumed |-> <<>>, done |-> FALSE, shown |-> None]

\* No handler has run yet.
NoHistory ==
    [run |-> 0, start_simulation |-> <<>>, nested |-> FALSE, late |-> FALSE, mst |-> NoMst]

\* SmartIrrigationApp(FARM_NODES, default_edges): lines 153-177 and, for the
\* setup page, 230-279. The welcome title has its first timer pending.
InitGui ==
    /\ nodes = FARM_NODES
    /\ edges = SetupRows
    /\ IdleEngine({1})
    /\ controller = [current_edges |-> SetupRows, simulator_page |-> FALSE,
                     last_target_node |-> None, last_route_distance |-> None,
                     frame |-> "SetupPage"]
    /\ simulator = NoSimulator
    /\ tk = [after_id |-> TRUE, welcome_step |-> 1, after_count |-> 0,
             timers |-> {}, update |-> <<>>]
    /\ history = NoHistory

\* The objects a handler works on, as it finds them.
World == [controller |-> controller, simulator |-> simulator, tk |-> tk,
          history |-> history]

\* The handler leaves the objects as w; the engine's own variables are not
\* those of the application.
Becomes(w) ==
    /\ controller' = w.controller
    /\ simulator' = w.simulator
    /\ tk' = w.tk
    /\ history' = w.history
    /\ UNCHANGED <<graph, pc, kruskalLocals, dijkstraLocals, pathLocals, ds_call>>

\* stop_all_animations, lines 426-432: after_cancel of every id of the list.
\* (The ids are tokens; once no timer is left they are counted from 0 anew.)
stop_all_animations(w) ==
    LET listed == {w.simulator.active_animations[i] :
                       i \in DOMAIN w.simulator.active_animations}
        left == {t \in w.tk.timers : t.id \notin listed}
    IN  [w EXCEPT !.simulator.active_animations = <<>>,
                  !.tk.timers = left,
                  !.tk.after_count = IF left = {} THEN 0 ELSE @]

\* reset_pipes, lines 515-535; the canvas is not modelled.
reset_pipes(w) == stop_all_animations(w)

\* draw_farm_layout, lines 456-497; the canvas is not modelled.
draw_farm_layout(w) == stop_all_animations(w)

\* IrrigationSimulator(container, controller, nodes, edges): lines 322-424.
IrrigationSimulator(es) == [NoSimulator EXCEPT !.edges = es]

\* SmartIrrigationApp.show_frame
show_frame(w, page_name) == [w EXCEPT !.controller.frame = page_name]

\* SmartIrrigationApp.start_simulation(new_edges), lines 183-201.
start_simulation(w, new_edges) ==
    LET w1 == [w EXCEPT !.controller.current_edges = new_edges,
                        !.history.start_simulation = Append(@, new_edges)]
        w2 == IF ~w1.controller.simulator_page
              THEN [w1 EXCEPT !.simulator = IrrigationSimulator(new_edges),
                              !.controller.simulator_page = TRUE]
              ELSE LET reset == draw_farm_layout(reset_pipes(
                                    [w1 EXCEPT !.simulator.edges = new_edges]))
                   IN  [reset EXCEPT !.simulator.mst_cost_label = None]
    IN  show_frame([w2 EXCEPT !.controller.last_target_node = None,
                              !.controller.last_route_distance = None],
                   "SimulatorPage")

\* The rows as submit_data builds them: lines 294-299.
RECURSIVE new_edges_of(_, _)
new_edges_of(texts, rows) ==
    IF rows = 0 THEN <<>>
    ELSE Append(new_edges_of(texts, rows - 1),
                <<float(texts[rows]).value, SetupRows[rows][2], SetupRows[rows][3]>>)

\* Does the loop of submit_data raise ValueError?
Refused(texts) ==
    \E r \in DOMAIN SetupRows :
        float(texts[r]).raised \/ FloatLt(float(texts[r]).value, 0)

\* A handler starts: history.start_simulation lists the calls it makes.
Handling(w) == [w EXCEPT !.history.start_simulation = <<>>]

\* SetupPage.submit_data with texts in the cost entries: lines 289-304.
submit_data(texts) ==
    /\ controller.frame = "SetupPage"
    /\ tk.update = <<>>
    /\ LET w == [Handling(World) EXCEPT !.tk.after_id = FALSE]
       IN  IF Refused(texts)
           THEN Becomes(w)
           ELSE Becomes(start_simulation(w, new_edges_of(texts, Len(SetupRows))))

\* SetupPage.animate_welcome_title fires: lines 281-286.
animate_welcome_title ==
    /\ tk.after_id
    /\ tk.update = <<>>
    /\ Becomes([Handling(World) EXCEPT !.tk.welcome_step = (@ + 1) % 3])

\* The button "Back to Setup" of the simulator page: line 353. (Inside an
\* update() the model has Tk handle the three buttons of the animations only.)
BackToSetup ==
    /\ controller.frame = "SimulatorPage"
    /\ tk.update = <<>>
    /\ Becomes(show_frame(Handling(World), "SetupPage"))

\* The button "Back to Simulator" of the report page: line 776.
BackToSimulator ==
    /\ controller.frame = "SingleFieldReportPage"
    /\ tk.update = <<>>
    /\ Becomes(show_frame(Handling(World), "SimulatorPage"))

\* The for loop of kruskal_mst_steps from position i on: lines 48-54.
RECURSIVE kruskal_for(_, _, _)
kruskal_for(sorted_es, d, i) ==
    IF i > Len(sorted_es) THEN <<>>
    ELSE LET e == sorted_es[i]
             r == union(d, e[2], e[3])
         IN  <<Event("CHECK", e), Event(IF r.ret THEN "ACCEPT" ELSE "REJECT", e)>>
                 \o kruskal_for(sorted_es, r.ds, i + 1)

\* list(kruskal_mst_steps(nodes, edges)): the generator pulled to its end.
list_kruskal_mst_steps(n, es) == kruskal_for(sorted(es), DisjointSet(n), 1)

\* The for loop of dijkstra_shortest_path_with_steps over the neighbors of
\* the popped node, from position i on: lines 78-86.
RECURSIVE dijkstra_for(_, _, _, _)
dijkstra_for(run, neighbors, i, item) ==
    IF i > Len(neighbors) THEN run
    ELSE LET weight == neighbors[i][1]
             neighbor == neighbors[i][2]
             distance == item[1] + weight
         IN  dijkstra_for(
                 IF Improves(distance, run.distances[neighbor])
                 THEN [distances |-> [run.distances EXCEPT ![neighbor] = distance],
                       previous_nodes |-> [run.previous_nodes EXCEPT ![neighbor] = item[2]],
                       priority_queue |-> heappush(run.priority_queue, <<distance, neighbor>>),
                       steps |-> Append(run.steps, <<"RELAXED", item[2], neighbor, distance>>)]
                 ELSE [run EXCEPT !.steps =
                           Append(@, <<"COMPARE_WORSE", item[2], neighbor, distance>>)],
                 neighbors, i + 1, item)

\* The while loop of dijkstra_shortest_path_with_steps: lines 70-86.
RECURSIVE dijkstra_while(_, _)
dijkstra_while(run, adjacency) ==
    IF run.priority_queue = <<>> THEN run
    ELSE LET r == heappop(run.priority_queue)
             popped == [run EXCEPT !.priority_queue = r.heap]
         IN  IF Stale(run.distances, r.item)
             THEN dijkstra_while(popped, adjacency)
             ELSE dijkstra_while(
                      dijkstra_for([popped EXCEPT !.steps =
                                        Append(@, <<"FINALIZED", r.item[2]>>)],
                                   adjacency[r.item[2]], 1, r.item),
                      adjacency)

\* dijkstra_shortest_path_with_steps(nodes, edges, start_node) run to its
\* return: lines 57-88.
dijkstra_shortest_path_with_steps(n, es, s) ==
    dijkstra_while([distances |-> [[i \in NodeSet(n) |-> Inf] EXCEPT ![s] = 0],
                    previous_nodes |-> [i \in NodeSet(n) |-> None],
                    priority_queue |-> <<<<0, s>>>>,
                    steps |-> <<>>],
                   BuildAdj(n, es))

\* The engine's loops are modelled on numbers: an edge list with a nan in
\* it is taken no further than the simulator page.
Numbers(es) == \A i \in DOMAIN es : es[i][1] # NaN

---------------------------------------------------------------------------
(* The timers of IrrigationSimulator. A callback scheduled with after() is *)
(* a record of tk.timers: its id, the time left until it is due, the       *)
(* function, the run whose handler or callback scheduled it (no value of   *)
(* the program) and the arguments and closure variables of the function.   *)

\* How many runs of the two animations the model starts.
GuiMaxRuns == 2

\* How many handlers the model lets wait in update() at a time.
GuiMaxDepth == 2

\* The default total_steps of _start_single_flow_animation
total_steps == 30

\* The default duration_ms of _start_single_flow_animation
duration_ms == 1000

\* The arguments and closure variables a callback may carry.
NoArgs ==
    [index |-> None, mst_steps |-> <<>>, count |-> None, max_count |-> None,
     delay |-> None, path_edges |-> <<>>, edge_index |-> None, step |-> None,
     total_cost |-> None]

\* self.after(delay, callback, ...): Tk names the timer with the next number.
after(w, delay, callback, run, args) ==
    LET id == w.tk.after_count + 1
    IN  [w EXCEPT !.tk.after_count = id,
                  !.tk.timers = @ \cup {[id |-> id, due |-> delay, callback |-> callback,
                                         run |-> run, args |-> args]}]

\* after_id = self.after(...) and self.active_animations.append(after_id)
after_append(w, delay, callback, run, args) ==
    LET w1 == after(w, delay, callback, run, args)
    IN  [w1 EXCEPT !.simulator.active_animations = Append(@, w1.tk.after_count)]

\* _animate_node_pulse, lines 499-513. Every node has its canvas item, and
\* the colors are not modelled, so the node is left out.
animate_node_pulse(w, run, count, max_count, delay) ==
    IF count < max_count
    THEN after_append(w, delay, "_animate_node_pulse", run,
                      [NoArgs EXCEPT !.count = count + 1, !.max_count = max_count,
                                     !.delay = delay])
    ELSE w

\* The sum of the weights on the ACCEPT events of a trace.
RECURSIVE SumAccept(_)
SumAccept(trace) ==
    IF trace = <<>> THEN 0
    ELSE SumAccept(SubSeq(trace, 1, Len(trace) - 1))
             + (IF trace[Len(trace)][1] = "ACCEPT" THEN trace[Len(trace)][2] ELSE 0)

\* step_animation(index) of run_and_animate_mst, lines 547-586; trace is
\* the list mst_steps of the enclosing call. Every edge of the trace has its line in
\* PIPE_LINE_MAP: both are made from self.edges. history.mst follows the
\* steps of the call that is its run.
step_animation(w, run, trace, index) ==
    LET mine == w.history.mst.run = run
    IN  IF index >= Len(trace)
        THEN [w EXCEPT !.simulator.mst_cost_label = w.simulator.total_mst_cost,
                       !.history.mst.done = IF mine THEN TRUE ELSE @,
                       !.history.mst.shown = IF mine THEN w.simulator.total_mst_cost ELSE @]
        ELSE LET step_type == trace[index + 1][1]
                 weight == trace[index + 1][2]
                 seen == [w EXCEPT !.history.mst.consumed =
                              IF mine THEN Append(@, trace[index + 1]) ELSE @]
                 next == [NoArgs EXCEPT !.index = index + 1, !.mst_steps = trace]
             IN  IF step_type = "CHECK"
                 THEN after_append(
                          animate_node_pulse(animate_node_pulse(seen, run, 0, 2, 50),
                                             run, 0, 2, 50),
                          500, "step_animation", run, next)
                 ELSE IF step_type = "ACCEPT"
                 THEN after_append(
                          [seen EXCEPT
                              !.simulator.total_mst_cost = @ + weight,
                              !.simulator.mst_cost_label = seen.simulator.total_mst_cost + weight],
                          500, "step_animation", run, next)
                 ELSE after_append(seen, 500, "reset_reject_line", run,
                                   [NoArgs EXCEPT !.index = index, !.mst_steps = trace])

\* reset_reject_line of step_animation(index), lines 576-579
reset_reject_line(w, run, trace, index) ==
    after_append(w, 500, "step_animation", run,
                 [NoArgs EXCEPT !.index = index + 1, !.mst_steps = trace])

\* A run of one of the two animations starts: the runs are counted.
Starting(w) ==
    [w EXCEPT !.history.run = @ + 1,
              !.history.nested = @ \/ w.tk.update # <<>>]

\* run_and_animate_mst up to its call of self.update(): lines 538-541. The
\* handler waits in update() while Tk handles the events that are queued.
run_and_animate_mst ==
    /\ controller.frame = "SimulatorPage"
    /\ Numbers(simulator.edges)
    /\ history.run < GuiMaxRuns
    /\ Len(tk.update) < GuiMaxDepth
    /\ LET w == Starting(reset_pipes(Handling(World)))
       IN  Becomes([w EXCEPT !.tk.update = Append(@, w.history.run)])

\* update() of the innermost waiting run_and_animate_mst returns, and the
\* handler goes on to its end: lines 543-588.
run_and_animate_mst_after_update ==
    /\ tk.update # <<>>
    /\ LET run == tk.update[Len(tk.update)]
           trace == list_kruskal_mst_steps(nodes, simulator.edges)
           w == [World EXCEPT
                    !.tk.update = SubSeq(@, 1, Len(@) - 1),
                    !.simulator.total_mst_cost = 0,
                    !.history.mst = [NoMst EXCEPT !.run = run, !.mst_steps = trace]]
       IN  Becomes(step_animation(w, run, trace, 0))

\* SmartIrrigationApp.show_single_report, lines 203-214
show_single_report(w, target_node, distance) ==
    show_frame([w EXCEPT !.controller.last_target_node = target_node,
                         !.controller.last_route_distance = distance],
               "SingleFieldReportPage")

RECURSIVE flow_animation_sequence(_, _, _, _, _)

\* _start_single_flow_animation, lines 706-722; next_callback is the lambda
\* of _flow_animation_sequence for the same path and the next edge.
start_single_flow_animation(w, run, path, edge_index, total_cost, step) ==
    IF step < total_steps
    THEN after_append(w, duration_ms \div total_steps, "_start_single_flow_animation", run,
                      [NoArgs EXCEPT !.path_edges = path, !.edge_index = edge_index,
                                     !.total_cost = total_cost, !.step = step + 1])
    ELSE flow_animation_sequence(w, run, path, edge_index + 1, total_cost)

\* _flow_animation_sequence, lines 681-704; final_callback is the lambda of
\* _dijkstra_final_results, which reads self.target_node when it is called.
flow_animation_sequence(w, run, path, edge_index, total_cost) ==
    IF edge_index >= Len(path)
    THEN show_single_report(w, w.simulator.target_node, total_cost)
    ELSE start_single_flow_animation(w, run, path, edge_index, total_cost, 0)

\* _dijkstra_final_results, lines 664-679
dijkstra_final_results(w, run) ==
    LET total_cost == w.simulator.distances[w.simulator.target_node]
    IN  IF total_cost = Inf
        THEN w
        ELSE flow_animation_sequence(
                 w, run,
                 reconstruct_path(w.simulator.previous_nodes, SourceNode,
                                  w.simulator.target_node),
                 0, total_cost)

\* _dijkstra_animate_step(index), lines 624-662
dijkstra_animate_step(w, run, index) ==
    IF index >= Len(w.simulator.dijkstra_steps)
    THEN dijkstra_final_results(w, run)
    ELSE LET step_type == w.simulator.dijkstra_steps[index + 1][1]
             next == [NoArgs EXCEPT !.index = index + 1]
         IN  IF step_type = "FINALIZED"
             THEN after_append(animate_node_pulse(w, run, 0, 2, 100),
                               400, "_dijkstra_animate_step", run, next)
             ELSE IF step_type = "RELAXED"
             THEN after_append(w, 400, "reset_relax_line", run,
                               [NoArgs EXCEPT !.index = index])
             ELSE after_append(animate_node_pulse(w, run, 0, 1, 100),
                               400, "_dijkstra_animate_step", run, next)

\* reset_relax_line of _dijkstra_animate_step(index), lines 646-650
reset_relax_line(w, run, index) ==
    after_append(animate_node_pulse(w, run, 0, 2, 100),
                 400, "_dijkstra_animate_step", run,
                 [NoArgs EXCEPT !.index = index + 1])

\* run_and_animate_shortest_path with target chosen in the combobox: lines
\* 590-614.
run_and_animate_shortest_path(target) ==
    /\ controller.frame = "SimulatorPage"
    /\ Numbers(simulator.edges)
    /\ history.run < GuiMaxRuns
    /\ LET w == Starting(reset_pipes(Handling(World)))
           r == dijkstra_shortest_path_with_steps(nodes, w.simulator.edges, SourceNode)
           w1 == [w EXCEPT !.simulator.mst_cost_label = None,
                           !.simulator.dijkstra_steps = r.steps,
                           !.simulator.target_node = target,
                           !.simulator.distances = r.distances,
                           !.simulator.previous_nodes = r.previous_nodes,
                           !.controller.last_target_node = target,
                           !.controller.last_route_distance = r.distances[target]]
       IN  Becomes(dijkstra_animate_step(w1, w1.history.run, 0))

\* view_report_page, lines 616-622; the message box changes nothing.
view_report_page ==
    /\ controller.frame = "SimulatorPage"
    /\ LET w == Handling(World)
       IN  IF controller.last_route_distance = None
           THEN Becomes(w)
           ELSE Becomes(show_single_report(stop_all_animations(w),
                                           controller.last_target_node,
                                           controller.last_route_distance))

\* Tk runs the timer that is due first, of two due together the older one.
\* No time passes in a handler.
DueFirst(t) ==
    \A u \in tk.timers : t.due < u.due \/ (t.due = u.due /\ t.id <= u.id)

\* The timer t fires: it is no longer pending when its callback runs, and
\* the time until the others are due has passed.
Fired(t) ==
    LET w == Handling(World)
    IN  [w EXCEPT !.tk.timers = {[u EXCEPT !.due = @ - t.due] : u \in tk.timers \ {t}},
                  !.history.late = @ \/ t.run # history.run]

\* The timers fire between the handlers, not while one waits in update():
\* what its reset_pipes left or a handler inside update() added is not due.
Fires(t, callback) ==
    /\ tk.update = <<>>
    /\ t.callback = callback
    /\ DueFirst(t)

FireStepAnimation ==
    \E t \in tk.timers :
        /\ Fires(t, "step_animation")
        /\ Becomes(step_animation(Fired(t), t.run, t.args.mst_steps, t.args.index))

FireResetRejectLine ==
    \E t \in tk.timers :
        /\ Fires(t, "reset_reject_line")
        /\ Becomes(reset_reject_line(Fired(t), t.run, t.args.mst_steps, t.args.index))

FireAnimateNodePulse ==
    \E t \in tk.timers :
        /\ Fires(t, "_animate_node_pulse")
        /\ Becomes(animate_node_pulse(Fired(t), t.run, t.args.count, t.args.max_count,
                                      t.args.delay))

FireDijkstraAnimateStep ==
    \E t \in tk.timers :
        /\ Fires(t, "_dijkstra_animate_step")
        /\ Becomes(dijkstra_animate_step(Fired(t), t.run, t.args.index))

FireResetRelaxLine ==
    \E t \in tk.timers :
        /\ Fires(t, "reset_relax_line")
        /\ Becomes(reset_relax_line(Fired(t), t.run, t.args.index))

FireStartSingleFlowAnimation ==
    \E t \in tk.timers :
        /\ Fires(t, "_start_single_flow_animation")
        /\ Becomes(start_single_flow_animation(Fired(t), t.run, t.args.path_edges,
                                               t.args.edge_index, t.args.total_cost,
                                               t.args.step))

\* The fields a route may be asked for: nodes[1:]
TargetFields == NodeSet(FARM_NODES) \ {SourceNode}

NextApp ==
    \/ \E texts \in [DOMAIN SetupRows -> Entries] : submit_data(texts)
    \/ animate_welcome_title
    \/ BackToSetup
    \/ BackToSimulator
    \/ run_and_animate_mst
    \/ run_and_animate_mst_after_update
    \/ \E target \in TargetFields : run_and_animate_shortest_path(target)
    \/ view_report_page
    \/ FireStepAnimation
    \/ FireResetRejectLine
    \/ FireAnimateNodePulse
    \/ FireDijkstraAnimateStep
    \/ FireResetRelaxLine
    \/ FireStartSingleFlowAnimation

SpecApp == InitGui /\ [][NextApp]_vars

---------------------------------------------------------------------------
(* C24: the setup form validates the costs before the engine is reached *)

\* The text is a decimal numeral with an optional sign.
Numeral(text) ==
    LET rest == IF text # <<>> /\ text[1] \in {"-", "+"} THEN Tail(text) ELSE text
    IN  rest # <<>> /\ \A i \in DOMAIN rest : IsDigit(rest[i])

\* The number a numeral stands for.
NumeralValue(text) ==
    IF text[1] = "-" THEN 0 - Decimal(Tail(text))
    ELSE IF text[1] = "+" THEN Decimal(Tail(text))
    ELSE Decimal(text)

\* A cost entry is valid when it is numeric and not negative.
ValidCost(text) == Numeral(text) /\ NumeralValue(text) >= 0

\* The step of submit_data on the entries texts does what the claim says.
SubmitValidates(texts) ==
    submit_data(texts) =>
        IF \E r \in DOMAIN SetupRows : ~ValidCost(texts[r])
        THEN /\ history'.start_simulation = <<>>
             /\ controller'.current_edges = controller.current_edges
             /\ simulator' = simulator
             /\ tk'.timers = tk.timers
             /\ mst_steps' = mst_steps
             /\ steps' = steps
        ELSE history'.start_simulation =
                 <<[r \in DOMAIN SetupRows |->
                       <<NumeralValue(texts[r]), SetupRows[r][2], SetupRows[r][3]>>]>>

\* C24: when an entered cost is negative or not numeric, submit_data does
\* not call start_simulation, leaves the controller's edge list and the
\* simulator as they were and produces no algorithm event; when all entries
\* are valid it calls start_simulation once, with one (cost, u, v) per row,
\* in row order and with the row's endpoints.
C24_SubmitValidates ==
    [][\A texts \in [DOMAIN SetupRows -> Entries] : SubmitValidates(texts)]_vars

\* The same for the entries that are numerals or are refused by float():
\* every entry but "nan".
SubmitValidatesButNan ==
    [][\A texts \in [DOMAIN SetupRows -> Entries \ {<<"n", "a", "n">>}] :
           SubmitValidates(texts)]_vars

\* The form has refused a submission while the simulator page had timers
\* pending, and has accepted one.
SubmitRefusedWitness ==
    /\ controller.frame = "SetupPage"
    /\ controller.simulator_page
    /\ ~tk.after_id
    /\ history.start_simulation = <<>>
    /\ tk.timers # {}

---------------------------------------------------------------------------
(* C25: the MST animation folds the trace of its run *)

\* C25: for the run of run_and_animate_mst that last set the accumulator to
\* 0, the steps executed so far are the first events of its trace, in trace
\* order and one per step; the accumulator is the sum of the weights of the
\* ACCEPT events among them (CHECK and REJECT add nothing); and when the
\* animation has come to its end, every event has been consumed and the
\* total displayed is the sum of the weights of the trace's ACCEPT events.
C25_MstFoldsTrace ==
    history.mst.run # 0 =>
        /\ Len(history.mst.consumed) <= Len(history.mst.mst_steps)
        /\ history.mst.consumed =
               SubSeq(history.mst.mst_steps, 1, Len(history.mst.consumed))
        /\ simulator.total_mst_cost = SumAccept(history.mst.consumed)
        /\ history.mst.done =>
               /\ history.mst.consumed = history.mst.mst_steps
               /\ history.mst.shown = SumAccept(history.mst.mst_steps)

\* The same as long as no run has been started by a handler that Tk called
\* inside the update() of run_and_animate_mst.
MstFoldsTraceUnlessNested == history.nested \/ C25_MstFoldsTrace

\* An animation of three edges has come to its end with one edge rejected,
\* and no handler was ever called inside update().
MstFoldWitness ==
    /\ ~history.nested
    /\ history.mst.done
    /\ Len(history.mst.mst_steps) = 6
    /\ history.mst.mst_steps[6][1] = "REJECT"
    /\ history.mst.shown > 0

---------------------------------------------------------------------------
(* C26: the pending callbacks belong to the run started last *)

\* C26: at any time every pending callback of the simulator page is listed
\* in active_animations and was scheduled by the run started last, and no
\* callback of an earlier run has executed after a later run had started.
C26_PendingBelongToLastRun ==
    /\ \A t \in tk.timers :
           /\ t.run = history.run
           /\ \E i \in DOMAIN simulator.active_animations :
                  simulator.active_animations[i] = t.id
    /\ ~history.late

\* The same as long as no run has been started by a handler that Tk called
\* inside the update() of run_and_animate_mst.
PendingBelongToLastRunUnlessNested == history.nested \/ C26_PendingBelongToLastRun

\* A second run has been started while callbacks of the first were pending,
\* outside update(), and callbacks of the second are pending.
PendingWitness ==
    /\ ~history.nested
    /\ history.run = 2
    /\ tk.update = <<>>
    /\ Cardinality(tk.timers) >= 2
    /\ simulator.active_animations # <<>>

=============================================================================
